---- MODULE Spec2Model ----
(***************************************************************************)
(* Model of the batch pipeline of the Mark Master Sheet Consolidator:      *)
(* Processor.ProcessFiles, processFilesConcurrently and                    *)
(* processFileWithRetries (internal/processor), together with the parts of *)
(* excel.Reader and excel.Writer they call, and the processing state of    *)
(* the GUI (internal/gui: startProcessing, stopProcessing, runProcessing). *)
(***************************************************************************)
EXTENDS Integers, Sequences, FiniteSets, TLC

\* ---------------------------------------------------------------- bounds
NumFiles == 2
MaxConcurrent == 2
MaxRetryAttempts == 2
MaxMasterRows == 2
SheetRows == 3
MaxRecords == 2
MaxRuns == 2

FileIds == 1..NumFiles

\* What a discovered file holds: a well-formed grading sheet, or one whose
\* worksheet, identifier or marks make ReadStudentData return a validation
\* error.
FileKinds == {"valid", "invalid"}

VARIABLES
    cfg,              \* config.ProcessingConfig of the Processor
    masterDoc,        \* structure of the master sheet file before the run
    dryRun,           \* the dryRun argument of ProcessFiles
    cancelled,        \* ctx.Done() is closed
    pc,               \* position of ProcessFiles
    files,            \* excelFiles: the discovered files, by kind
    next,             \* index of the range loop of processFilesConcurrently
    tpc,              \* position of the goroutine of each file
    attempt,          \* attempt counter of processFileWithRetries
    success,          \* result.Success of each file
    lastErr,          \* lastErr / result.Error of each file
    semaphore,        \* number of tokens in the semaphore channel
    mu,               \* holder of the mutex mu, 0 when free
    procSummary,      \* summary of processFilesConcurrently
    studentDataList,  \* studentDataList of processFilesConcurrently
    summary,          \* summary of ProcessFiles
    retErr,           \* error returned by ProcessFiles
    master,           \* the master sheet on disk
    backups,          \* files in the backup folder
    outputs,          \* files in the output folder
    backupLog,        \* outcome of each call of Writer.CreateBackup
    batch,            \* BatchUpdateMasterSheet: loop index, open document, summary
    cancelBeforeSuccess, \* cancel() was called before any goroutine was started
    records,          \* studentDataList as BatchUpdateMasterSheet receives it
    sheet,            \* rows of the worksheet of the open masterFile
    sheet0,           \* rows of the worksheet when the file was opened
    sheetPrev,        \* rows of the worksheet before the last loop iteration
    ridx,             \* number of records the loop has gone through
    disk,             \* rows of the worksheet in the file on disk
    msum,             \* summary of BatchUpdateMasterSheet
    mpc,              \* position of BatchUpdateMasterSheet
    located,          \* row FindStudentInMasterSheet returned for each record
    run,              \* which call of BatchUpdateMasterSheet this is
    mode,             \* what the second call works on
    firstRun,         \* file content and summary the first call ended with
    rfile,            \* the student file ReadStudentData is called on
    rpc,              \* position of ReadStudentData
    rdata,            \* studentData of ReadStudentData, once created
    rret,             \* the *models.StudentData ReadStudentData returned
    rerr,             \* the error ReadStudentData returned
    tree,             \* the directory tree under StudentFilesFolder
    walkOut,          \* what findExcelFiles returned to ProcessFiles
    walkLog,          \* paths the walk passed to LogFileError
    walkSummary,      \* summary of ProcessFiles after the discovery
    stats,            \* what GetProcessingStatistics returned
    isProcessing,     \* App.isProcessing, as it is in memory
    uiIsProcessing,   \* App.isProcessing, as the event goroutine reads it
    processor,        \* App.processor: the start that made it, 0 for nil
    processingContext,\* App.processingContext and cancelProcessing, likewise
    ctxDone,          \* the contexts whose cancel function has been called
    status,           \* the text of the status label
    progressShown,    \* the progress bar is shown
    shownError,       \* the text of the last error dialog
    runProc           \* the runProcessing goroutines, by the start they are of

\* The variables of the pipeline and those of the merge seen cell by cell.
processorVars ==
    <<cfg, masterDoc, dryRun, cancelled, pc, files, next, tpc, attempt, success,
      lastErr, semaphore, mu, procSummary, studentDataList, summary, retErr,
      master, backups, outputs, backupLog, batch, cancelBeforeSuccess>>

mergeVars ==
    <<records, sheet, sheet0, sheetPrev, ridx, disk, msum, mpc, located, run,
      mode, firstRun>>

readerVars == <<rfile, rpc, rdata, rret, rerr>>

walkVars == <<tree, walkOut, walkLog, walkSummary, stats>>

guiVars ==
    <<isProcessing, uiIsProcessing, processor, processingContext, ctxDone,
      status, progressShown, shownError, runProc>>

vars == <<processorVars, mergeVars, readerVars, walkVars, guiVars>>

\* ------------------------------------------------------------ data model

\* What ValidateMasterSheet looks at: whether excelize opens the file and
\* reads its rows, whether the master worksheet is in the sheet list, and
\* the number of rows of that worksheet (the header row included).
MasterDocs == [opens : BOOLEAN, hasSheet : BOOLEAN, rows : 0..MaxMasterRows]

\* models.ProcessingSummary as Go zeroes it; a timestamp is 0 while it is
\* the zero time.Time, and a reading of the clock afterwards.
EmptySummary ==
    [TotalFiles |-> 0, SuccessfulFiles |-> 0, FailedFiles |-> 0,
     SkippedFiles |-> 0, StudentsUpdated |-> 0, StudentsNotFound |-> 0,
     Errors |-> <<>>, Warnings |-> <<>>, StartTime |-> 0, EndTime |-> 0]

\* time.Now() where ProcessFiles creates the summary, and what a later
\* time.Now() can read: the same instant or a later one.
StartInstant == 1

LaterInstants == StartInstant..(StartInstant + 1)

\* The master sheet before the run: nothing merged, never saved.
InitialMaster == [merged |-> {}, saves |-> 0, whole |-> TRUE]

\* What the copy loop of CreateBackup leaves in the backup file when a read
\* or a write fails: the chunks written so far.
Truncated(f) == [f EXCEPT !.whole = FALSE]

Discovered == 1..Len(files)

\* A goroutine owns a semaphore token from `semaphore <- struct{}{}` until
\* its deferred `<-semaphore`.
HoldsSlot(i) == tpc[i] \in {"extracting", "retrywait", "result", "crit", "progress"}

\* The per-file state of the orchestrator's state machine.
TaskState(i) ==
    CASE tpc[i] \in {"pending", "waiting"} -> "Pending"
      [] tpc[i] = "extracting" -> "Extracting"
      [] tpc[i] = "retrywait" -> "RetryWait"
      [] tpc[i] \in {"panicked", "killed"} -> "Crashed"
      [] OTHER -> IF success[i] THEN "Succeeded"
                  ELSE IF cfg.SkipInvalidFiles THEN "Skipped" ELSE "Failed"

\* --------------------------------------------------------------- Init

\* ProcessFiles has not been called: nothing discovered, no goroutine, the
\* files untouched.
ProcessorAtRest ==
    /\ dryRun = FALSE
    /\ cancelled = FALSE
    /\ pc = "idle"
    /\ files = <<>>
    /\ next = 1
    /\ tpc = [i \in FileIds |-> "pending"]
    /\ attempt = [i \in FileIds |-> 0]
    /\ success = [i \in FileIds |-> FALSE]
    /\ lastErr = [i \in FileIds |-> "nil"]
    /\ semaphore = 0
    /\ mu = 0
    /\ procSummary = EmptySummary
    /\ studentDataList = <<>>
    /\ summary = EmptySummary
    /\ retErr = "unset"
    /\ master = InitialMaster
    /\ backups = <<>>
    /\ outputs = <<>>
    /\ backupLog = <<>>
    /\ batch = [idx |-> 0, found |-> {}, marked |-> {}, mem |-> {},
                sum |-> EmptySummary]
    /\ cancelBeforeSuccess = FALSE

\* No merge is looked at cell by cell.
MergeIdle ==
    /\ records = <<>>
    /\ sheet = <<>>
    /\ sheet0 = <<>>
    /\ sheetPrev = <<>>
    /\ ridx = 0
    /\ disk = <<>>
    /\ msum = EmptySummary
    /\ mpc = "off"
    /\ located = <<>>
    /\ run = 1
    /\ mode = "first"
    /\ firstRun = [sheet0 |-> <<>>, disk |-> <<>>, msum |-> EmptySummary]

\* No error: what rerr holds before ReadStudentData returns.
NoError == [type |-> "none", stage |-> "", cell |-> 0]

\* ReadStudentData is not looked at.
ReaderIdle ==
    /\ rfile = [kind |-> "none", id |-> [err |-> FALSE, text |-> <<>>],
                marks |-> <<>>]
    /\ rpc = "off"
    /\ rdata = <<>>
    /\ rret = <<>>
    /\ rerr = NoError

\* findExcelFiles is not looked at entry by entry.
WalkIdle ==
    /\ tree = <<>>
    /\ walkOut = <<>>
    /\ walkLog = <<>>
    /\ walkSummary = [TotalFiles |-> 0, Errors |-> <<>>]
    /\ stats = <<>>

\* No App is in use: its fields are as NewApp leaves them.
GuiIdle ==
    /\ isProcessing = FALSE
    /\ uiIsProcessing = FALSE
    /\ processor = 0
    /\ processingContext = 0
    /\ ctxDone = {}
    /\ status = "Ready"
    /\ progressShown = FALSE
    /\ shownError = ""
    /\ runProc = [k \in 1..MaxRuns |->
                     [pc |-> "none", dryRun |-> FALSE, processor |-> 0, ctx |-> 0]]

Init ==
    /\ cfg \in [MaxConcurrentFiles : 1..MaxConcurrent,
                RetryAttempts : 1..MaxRetryAttempts,
                BackupEnabled : BOOLEAN,
                SkipInvalidFiles : BOOLEAN]
    /\ masterDoc \in MasterDocs
    /\ ProcessorAtRest
    /\ MergeIdle
    /\ ReaderIdle
    /\ WalkIdle
    /\ GuiIdle

\* The least retry_attempts of the model: Config.Validate does not look at
\* the field, and a configuration file without it leaves it 0.
LeastRetryAttempts == -1

\* A Processor made from any configuration Config.Validate accepts.
RetryInit ==
    /\ cfg \in [MaxConcurrentFiles : 1..MaxConcurrent,
                RetryAttempts : LeastRetryAttempts..MaxRetryAttempts,
                BackupEnabled : BOOLEAN,
                SkipInvalidFiles : BOOLEAN]
    /\ masterDoc \in MasterDocs
    /\ ProcessorAtRest
    /\ MergeIdle
    /\ ReaderIdle
    /\ WalkIdle
    /\ GuiIdle

\* ------------------------------------------------- Processor.ProcessFiles

\* Variant: a sheet with only its header row passes.
MasterSheetOk_headerOnly(doc) ==
    doc.opens /\ doc.hasSheet /\ ~(doc.rows < 1)

\* Writer.ValidateMasterSheet returns nil: the file opens, the worksheet is
\* in the sheet list and `len(rows) < 2` is false.
MasterSheetOk(doc) ==
    doc.opens /\ doc.hasSheet /\ ~(doc.rows < 2)

\* ProcessFiles is entered, creates the summary with its StartTime and
\* validates the master sheet first.
ValidateMasterSheet(d) ==
    /\ pc = "idle"
    /\ dryRun' = d
    /\ summary' = [summary EXCEPT !.StartTime = StartInstant]
    /\ IF MasterSheetOk(masterDoc)
         THEN /\ pc' = "find"
              /\ UNCHANGED retErr
         ELSE /\ pc' = "returned"
              /\ retErr' = "master sheet validation failed"
    /\ UNCHANGED <<mergeVars, readerVars, walkVars, guiVars>>
    /\ UNCHANGED <<cfg, masterDoc, batch, cancelled, files, next, tpc, attempt, success,
                   lastErr, semaphore, mu, procSummary, studentDataList,
                   master, backups, outputs, backupLog,
                   cancelBeforeSuccess>>

\* Variant: a run without files goes on to the backup.
FindExcelFiles_noEarlyReturn(fs) ==
    /\ pc = "find"
    /\ files' = fs
    /\ summary' = [summary EXCEPT !.TotalFiles = Len(fs)]
    /\ pc' = "backup"
    /\ UNCHANGED retErr
    /\ UNCHANGED <<mergeVars, readerVars, walkVars, guiVars>>
    /\ UNCHANGED <<cfg, masterDoc, batch, dryRun, cancelled, next, tpc, attempt, success, lastErr,
                   semaphore, mu, procSummary, studentDataList,
                   master, backups, outputs, backupLog, cancelBeforeSuccess>>

\* findExcelFiles: the walk callback returns nil on every path, so the walk
\* itself never fails; zero files end the run with an empty summary.
FindExcelFiles(fs) ==
    /\ pc = "find"
    /\ files' = fs
    /\ summary' = [summary EXCEPT !.TotalFiles = Len(fs)]
    /\ IF Len(fs) = 0
         THEN /\ pc' = "returned"
              /\ retErr' = "nil"
         ELSE /\ pc' = "backup"
              /\ UNCHANGED retErr
    /\ UNCHANGED <<mergeVars, readerVars, walkVars, guiVars>>
    /\ UNCHANGED <<cfg, masterDoc, batch, dryRun, cancelled, next, tpc, attempt, success, lastErr,
                   semaphore, mu, procSummary, studentDataList,
                   master, backups, outputs, backupLog, cancelBeforeSuccess>>

\* Variant: the backup does not look at dryRun.
ShouldBackup_ignoresDryRun == cfg.BackupEnabled

\* `if p.config.Processing.BackupEnabled && !dryRun`
ShouldBackup == cfg.BackupEnabled /\ ~dryRun

\* How Writer.CreateBackup can end: the copy completes, or the backup
\* directory cannot be made, the master cannot be opened, the backup file
\* cannot be created, or the copy loop fails after the file was created.
BackupOutcomes == {"ok", "mkdir", "open", "create", "copy"}

\* Variant: a failed backup is recorded and the run goes on.
CreateBackup_continuesOnError(out) ==
    /\ pc = "backup"
    /\ ShouldBackup
    /\ backupLog' = Append(backupLog, out)
    /\ backups' = CASE out = "ok" -> Append(backups, master)
                    [] out = "copy" -> Append(backups, Truncated(master))
                    [] OTHER -> backups
    /\ pc' = "loop"
    /\ UNCHANGED <<mergeVars, readerVars, walkVars, guiVars>>
    /\ UNCHANGED <<cfg, masterDoc, batch, dryRun, cancelled, files, next, tpc, attempt, success,
                   lastErr, semaphore, mu, procSummary, studentDataList,
                   summary, retErr, master, outputs, cancelBeforeSuccess>>

\* Variant: an error of the copy loop is not returned.
CreateBackup_copyUnchecked(out) ==
    /\ pc = "backup"
    /\ ShouldBackup
    /\ backupLog' = Append(backupLog, out)
    /\ backups' = CASE out = "ok" -> Append(backups, master)
                    [] out = "copy" -> Append(backups, Truncated(master))
                    [] OTHER -> backups
    /\ IF out \in {"ok", "copy"}
         THEN /\ pc' = "loop"
              /\ UNCHANGED retErr
         ELSE /\ pc' = "returned"
              /\ retErr' = "failed to create backup"
    /\ UNCHANGED <<mergeVars, readerVars, walkVars, guiVars>>
    /\ UNCHANGED <<cfg, masterDoc, batch, dryRun, cancelled, files, next, tpc, attempt, success,
                   lastErr, semaphore, mu, procSummary, studentDataList,
                   summary, master, outputs, cancelBeforeSuccess>>

CreateBackup(out) ==
    /\ pc = "backup"
    /\ ShouldBackup
    /\ backupLog' = Append(backupLog, out)
    /\ backups' = CASE out = "ok" -> Append(backups, master)
                    [] out = "copy" -> Append(backups, Truncated(master))
                    [] OTHER -> backups
    /\ IF out = "ok"
         THEN /\ pc' = "loop"
              /\ UNCHANGED retErr
         ELSE /\ pc' = "returned"
              /\ retErr' = "failed to create backup"
    /\ UNCHANGED <<mergeVars, readerVars, walkVars, guiVars>>
    /\ UNCHANGED <<cfg, masterDoc, batch, dryRun, cancelled, files, next, tpc, attempt, success,
                   lastErr, semaphore, mu, procSummary, studentDataList,
                   summary, master, outputs, cancelBeforeSuccess>>

SkipBackup ==
    /\ pc = "backup"
    /\ ~ShouldBackup
    /\ pc' = "loop"
    /\ UNCHANGED <<mergeVars, readerVars, walkVars, guiVars>>
    /\ UNCHANGED <<cfg, masterDoc, batch, dryRun, cancelled, files, next, tpc, attempt, success,
                   lastErr, semaphore, mu, procSummary, studentDataList,
                   summary, retErr, master, backups, outputs,
                   backupLog, cancelBeforeSuccess>>

\* --------------------------------------- Processor.processFilesConcurrently

\* The `break` of the `case <-ctx.Done()` branch is inside a select
\* statement: in Go it ends the select, not the enclosing for loop.
BreakLeavesLoop == FALSE

\* One iteration of `for _, filePath := range files`: the select on
\* ctx.Done(), then wg.Add(1) and the go statement.
SpawnNext ==
    /\ pc = "loop"
    /\ next <= Len(files)
    /\ IF cancelled /\ BreakLeavesLoop
         THEN /\ pc' = "wait"
              /\ UNCHANGED <<next, tpc>>
         ELSE /\ tpc' = [tpc EXCEPT ![next] = "waiting"]
              /\ next' = next + 1
              /\ UNCHANGED pc
    /\ UNCHANGED <<mergeVars, readerVars, walkVars, guiVars>>
    /\ UNCHANGED <<cfg, masterDoc, batch, dryRun, cancelled, files, attempt, success, lastErr,
                   semaphore, mu, procSummary, studentDataList, summary,
                   retErr, master, backups, outputs, backupLog, cancelBeforeSuccess>>

LoopDone ==
    /\ pc = "loop"
    /\ next > Len(files)
    /\ pc' = "wait"
    /\ UNCHANGED <<mergeVars, readerVars, walkVars, guiVars>>
    /\ UNCHANGED <<cfg, masterDoc, batch, dryRun, cancelled, files, next, tpc, attempt, success,
                   lastErr, semaphore, mu, procSummary, studentDataList,
                   summary, retErr, master, backups, outputs,
                   backupLog, cancelBeforeSuccess>>

\* Variant: the gate lets one task too many through.
SemHasRoom_offByOne == semaphore <= cfg.MaxConcurrentFiles

\* `semaphore := make(chan struct{}, MaxConcurrentFiles)`: a send proceeds
\* only while the channel is not full.
SemHasRoom == semaphore < cfg.MaxConcurrentFiles

\* `semaphore <- struct{}{}`, then processFileWithRetries is entered: its
\* loop `for attempt := 1; attempt <= RetryAttempts` runs, or it is skipped
\* and LogFileError is called with the nil lastErr: `err.Error()` panics in
\* the goroutine, nothing recovers, and the process ends with every other
\* goroutine.
Acquire(i) ==
    /\ tpc[i] = "waiting"
    /\ SemHasRoom
    /\ semaphore' = semaphore + 1
    /\ IF 1 <= cfg.RetryAttempts
         THEN /\ tpc' = [tpc EXCEPT ![i] = "extracting"]
              /\ attempt' = [attempt EXCEPT ![i] = 1]
              /\ UNCHANGED pc
         ELSE /\ tpc' = [j \in FileIds |-> IF j = i THEN "panicked" ELSE "killed"]
              /\ pc' = "crashed"
              /\ UNCHANGED attempt
    /\ UNCHANGED <<mergeVars, readerVars, walkVars, guiVars>>
    /\ UNCHANGED <<cfg, masterDoc, batch, dryRun, cancelled, files, next, success, lastErr,
                   mu, procSummary, studentDataList, summary, retErr,
                   master, backups, outputs, backupLog, cancelBeforeSuccess>>

\* What Reader.ReadStudentData can return for a file: the record, a
\* models.ValidationError / worksheet error decided by the content, or a
\* models.FileProcessingError of the opening or reading stage.
ReadOutcomes(kind) ==
    IF kind = "valid" THEN {"ok", "io"} ELSE {"validation", "io"}

\* `if attempt < p.config.Processing.RetryAttempts`: the error's type is
\* not looked at.
RetryAfter(err, a) == a < cfg.RetryAttempts

\* One iteration of the retry loop up to its sleep or its return.
ReadStudentData(i, out) ==
    /\ tpc[i] = "extracting"
    /\ out \in ReadOutcomes(files[i])
    /\ IF out = "ok"
         THEN /\ success' = [success EXCEPT ![i] = TRUE]
              /\ tpc' = [tpc EXCEPT ![i] = "result"]
              /\ UNCHANGED lastErr
         ELSE /\ lastErr' = [lastErr EXCEPT ![i] = out]
              /\ tpc' = [tpc EXCEPT ![i] =
                            IF RetryAfter(out, attempt[i]) THEN "retrywait"
                                                           ELSE "result"]
              /\ UNCHANGED success
    /\ UNCHANGED <<mergeVars, readerVars, walkVars, guiVars>>
    /\ UNCHANGED <<cfg, masterDoc, batch, dryRun, cancelled, pc, files, next, attempt, semaphore,
                   mu, procSummary, studentDataList, summary, retErr,
                   master, backups, outputs, backupLog, cancelBeforeSuccess>>

\* Variant: after the sleep the loop ends without another attempt.
SleepReturns_givesUp(i) ==
    /\ tpc[i] = "retrywait"
    /\ UNCHANGED attempt
    /\ tpc' = [tpc EXCEPT ![i] = "result"]
    /\ UNCHANGED <<mergeVars, readerVars, walkVars, guiVars>>
    /\ UNCHANGED <<cfg, masterDoc, batch, dryRun, cancelled, pc, files, next, success, lastErr,
                   semaphore, mu, procSummary, studentDataList, summary,
                   retErr, master, backups, outputs, backupLog, cancelBeforeSuccess>>

\* `time.Sleep(time.Duration(attempt) * time.Second)` returns and the loop
\* starts the next attempt; the sleep does not look at the context.
SleepReturns(i) ==
    /\ tpc[i] = "retrywait"
    /\ attempt' = [attempt EXCEPT ![i] = attempt[i] + 1]
    /\ tpc' = [tpc EXCEPT ![i] = "extracting"]
    /\ UNCHANGED <<mergeVars, readerVars, walkVars, guiVars>>
    /\ UNCHANGED <<cfg, masterDoc, batch, dryRun, cancelled, pc, files, next, success, lastErr,
                   semaphore, mu, procSummary, studentDataList, summary,
                   retErr, master, backups, outputs, backupLog, cancelBeforeSuccess>>

\* Variant: the lock is taken although another goroutine holds it.
Lock_notExclusive(i) ==
    /\ tpc[i] = "result"
    /\ mu' = i
    /\ tpc' = [tpc EXCEPT ![i] = "crit"]
    /\ UNCHANGED <<mergeVars, readerVars, walkVars, guiVars>>
    /\ UNCHANGED <<cfg, masterDoc, batch, dryRun, cancelled, pc, files, next, attempt, success,
                   lastErr, semaphore, procSummary, studentDataList, summary,
                   retErr, master, backups, outputs, backupLog, cancelBeforeSuccess>>

\* mu.Lock() before the summary update
Lock(i) ==
    /\ tpc[i] = "result"
    /\ mu = 0
    /\ mu' = i
    /\ tpc' = [tpc EXCEPT ![i] = "crit"]
    /\ UNCHANGED <<mergeVars, readerVars, walkVars, guiVars>>
    /\ UNCHANGED <<cfg, masterDoc, batch, dryRun, cancelled, pc, files, next, attempt, success,
                   lastErr, semaphore, procSummary, studentDataList, summary,
                   retErr, master, backups, outputs, backupLog, cancelBeforeSuccess>>

\* Variant: a tolerated failure is logged but not counted.
Fold_skipNotCounted(s, i) ==
    IF success[i]
      THEN [s EXCEPT !.SuccessfulFiles = @ + 1]
      ELSE IF cfg.SkipInvalidFiles
             THEN s
             ELSE [s EXCEPT !.FailedFiles = @ + 1,
                            !.Errors = Append(@, i)]

\* Variant: a failure in strict mode is counted but its message is dropped.
Fold_strictNotListed(s, i) ==
    IF success[i]
      THEN [s EXCEPT !.SuccessfulFiles = @ + 1]
      ELSE IF cfg.SkipInvalidFiles
             THEN [s EXCEPT !.SkippedFiles = @ + 1]
             ELSE [s EXCEPT !.FailedFiles = @ + 1]

\* Variant: the SkipInvalidFiles flag is not looked at.
Fold_ignoresFlag(s, i) ==
    IF success[i]
      THEN [s EXCEPT !.SuccessfulFiles = @ + 1]
      ELSE [s EXCEPT !.FailedFiles = @ + 1,
                     !.Errors = Append(@, i)]

\* The summary after the outcome of file i is folded in.
Fold(s, i) ==
    IF success[i]
      THEN [s EXCEPT !.SuccessfulFiles = @ + 1]
      ELSE IF cfg.SkipInvalidFiles
             THEN [s EXCEPT !.SkippedFiles = @ + 1]
             ELSE [s EXCEPT !.FailedFiles = @ + 1,
                            !.Errors = Append(@, i)]

\* The critical section `if result.Success {...} else {...}` and mu.Unlock()
UpdateSummary(i) ==
    /\ tpc[i] = "crit"
    /\ procSummary' = Fold(procSummary, i)
    /\ studentDataList' = IF success[i] THEN Append(studentDataList, i)
                                        ELSE studentDataList
    /\ mu' = 0
    /\ tpc' = [tpc EXCEPT ![i] = "progress"]
    /\ UNCHANGED <<mergeVars, readerVars, walkVars, guiVars>>
    /\ UNCHANGED <<cfg, masterDoc, batch, dryRun, cancelled, pc, files, next, attempt, success,
                   lastErr, semaphore, summary, retErr, master, backups,
                   outputs, backupLog, cancelBeforeSuccess>>

\* Variant: the goroutine ends without taking its token back out.
Finish_keepsToken(i) ==
    /\ tpc[i] = "progress"
    /\ mu = 0
    /\ UNCHANGED semaphore
    /\ tpc' = [tpc EXCEPT ![i] = "done"]
    /\ UNCHANGED <<mergeVars, readerVars, walkVars, guiVars>>
    /\ UNCHANGED <<cfg, masterDoc, batch, dryRun, cancelled, pc, files, next, attempt, success,
                   lastErr, mu, procSummary, studentDataList, summary, retErr,
                   master, backups, outputs, backupLog, cancelBeforeSuccess>>

\* The second mu.Lock()/mu.Unlock() pair that reads the progress, then the
\* deferred `<-semaphore`, bar.Add(1) and wg.Done().
Finish(i) ==
    /\ tpc[i] = "progress"
    /\ mu = 0
    /\ semaphore' = semaphore - 1
    /\ tpc' = [tpc EXCEPT ![i] = "done"]
    /\ UNCHANGED <<mergeVars, readerVars, walkVars, guiVars>>
    /\ UNCHANGED <<cfg, masterDoc, batch, dryRun, cancelled, pc, files, next, attempt, success,
                   lastErr, mu, procSummary, studentDataList, summary, retErr,
                   master, backups, outputs, backupLog, cancelBeforeSuccess>>

\* Variant: the wait ends as soon as one goroutine has reported a failure.
WgWait_firstError ==
    /\ pc = "wait"
    /\ \/ \A i \in FileIds : tpc[i] \in {"pending", "done"}
       \/ \E i \in FileIds : tpc[i] = "done" /\ ~success[i]
    /\ summary' = [summary EXCEPT
                     !.SuccessfulFiles = procSummary.SuccessfulFiles,
                     !.FailedFiles = procSummary.FailedFiles,
                     !.SkippedFiles = procSummary.SkippedFiles,
                     !.Errors = procSummary.Errors,
                     !.Warnings = procSummary.Warnings]
    /\ pc' = "update"
    /\ UNCHANGED <<mergeVars, readerVars, walkVars, guiVars>>
    /\ UNCHANGED <<cfg, masterDoc, batch, dryRun, cancelled, files, next, tpc, attempt, success,
                   lastErr, semaphore, mu, procSummary, studentDataList,
                   retErr, master, backups, outputs, backupLog, cancelBeforeSuccess>>

\* wg.Wait() returns once every started goroutine has called wg.Done();
\* ProcessFiles then copies the counters and lists into its own summary.
WgWait ==
    /\ pc = "wait"
    /\ \A i \in FileIds : tpc[i] \in {"pending", "done"}
    /\ summary' = [summary EXCEPT
                     !.SuccessfulFiles = procSummary.SuccessfulFiles,
                     !.FailedFiles = procSummary.FailedFiles,
                     !.SkippedFiles = procSummary.SkippedFiles,
                     !.Errors = procSummary.Errors,
                     !.Warnings = procSummary.Warnings]
    /\ pc' = "update"
    /\ UNCHANGED <<mergeVars, readerVars, walkVars, guiVars>>
    /\ UNCHANGED <<cfg, masterDoc, batch, dryRun, cancelled, files, next, tpc, attempt, success,
                   lastErr, semaphore, mu, procSummary, studentDataList,
                   retErr, master, backups, outputs, backupLog, cancelBeforeSuccess>>

\* ------------------------------------------------ merge and output copy

\* Variant: the merge is called with an empty list too.
ShouldUpdateMaster_evenEmpty == ~dryRun

\* Variant: the merge does not look at dryRun.
ShouldUpdateMaster_ignoresDryRun == Len(studentDataList) > 0

\* `if !dryRun && len(studentDataList) > 0`
ShouldUpdateMaster == ~dryRun /\ Len(studentDataList) > 0

\* How the opening part of Writer.BatchUpdateMasterSheet can end: the file
\* is open with its worksheet, or the open or the worksheet check fails.
UpdateOutcomes == {"ok", "open", "sheet"}

Range(s) == {s[k] : k \in 1..Len(s)}

\* Writer.BatchUpdateMasterSheet is called and opens the master sheet once.
\* `found` are the records whose student ID FindStudentInMasterSheet will
\* locate, `marked` those of them with at least one mark to write
\* (markCount > 0).
BatchUpdateMasterSheet(out, found, marked) ==
    /\ pc = "update"
    /\ ShouldUpdateMaster
    /\ found \subseteq Range(studentDataList)
    /\ marked \subseteq found
    /\ IF out = "ok"
         THEN /\ batch' = [idx |-> 0, found |-> found, marked |-> marked,
                           mem |-> master.merged, sum |-> EmptySummary]
              /\ pc' = "apply"
              /\ UNCHANGED retErr
         ELSE /\ pc' = "returned"
              /\ retErr' = "failed to update master sheet"
              /\ UNCHANGED batch
    /\ UNCHANGED <<mergeVars, readerVars, walkVars, guiVars>>
    /\ UNCHANGED <<cfg, masterDoc, dryRun, cancelled, files, next, tpc, attempt,
                   success, lastErr, semaphore, mu, procSummary,
                   studentDataList, summary, master, backups, outputs,
                   backupLog, cancelBeforeSuccess>>

\* The batch after one iteration of `for _, studentData := range
\* studentDataList`: a warning for a record that is not found, the marks set
\* in the open document for one that is.
Applied(bt, r) ==
    IF r \notin bt.found
      THEN [bt EXCEPT !.idx = @ + 1,
                      !.sum.StudentsNotFound = @ + 1,
                      !.sum.Warnings = Append(@, r)]
      ELSE IF r \in bt.marked
             THEN [bt EXCEPT !.idx = @ + 1,
                             !.mem = @ \cup {r},
                             !.sum.StudentsUpdated = @ + 1]
             ELSE [bt EXCEPT !.idx = @ + 1]

\* Variant: the file is saved after each record, as UpdateMasterSheet does.
ApplyRecord_savesEach ==
    /\ pc = "apply"
    /\ batch.idx < Len(studentDataList)
    /\ batch' = Applied(batch, studentDataList[batch.idx + 1])
    /\ master' = [master EXCEPT !.merged = batch'.mem, !.saves = @ + 1]
    /\ UNCHANGED <<mergeVars, readerVars, walkVars, guiVars>>
    /\ UNCHANGED <<cfg, masterDoc, dryRun, cancelled, pc, files, next, tpc,
                   attempt, success, lastErr, semaphore, mu, procSummary,
                   studentDataList, summary, retErr, backups, outputs,
                   backupLog, cancelBeforeSuccess>>

\* One record is applied to the document held in memory.
ApplyRecord ==
    /\ pc = "apply"
    /\ batch.idx < Len(studentDataList)
    /\ batch' = Applied(batch, studentDataList[batch.idx + 1])
    /\ UNCHANGED <<mergeVars, readerVars, walkVars, guiVars>>
    /\ UNCHANGED <<cfg, masterDoc, dryRun, cancelled, pc, files, next, tpc,
                   attempt, success, lastErr, semaphore, mu, procSummary,
                   studentDataList, summary, retErr, master, backups, outputs,
                   backupLog, cancelBeforeSuccess>>

\* masterFile.Save() after the loop and the return to ProcessFiles, which
\* adds the counts and messages of the batch to its summary; a failed save
\* makes ProcessFiles return the error.
SaveMaster(ok) ==
    /\ pc = "apply"
    /\ batch.idx = Len(studentDataList)
    /\ IF ok
         THEN /\ master' = [master EXCEPT !.merged = batch.mem, !.saves = @ + 1]
              /\ summary' = [summary EXCEPT
                               !.StudentsUpdated = batch.sum.StudentsUpdated,
                               !.StudentsNotFound = batch.sum.StudentsNotFound,
                               !.Errors = @ \o batch.sum.Errors,
                               !.Warnings = @ \o batch.sum.Warnings]
              /\ pc' = "copy"
              /\ UNCHANGED retErr
         ELSE /\ pc' = "returned"
              /\ retErr' = "failed to update master sheet"
              /\ UNCHANGED <<master, summary>>
    /\ UNCHANGED <<mergeVars, readerVars, walkVars, guiVars>>
    /\ UNCHANGED <<cfg, masterDoc, batch, dryRun, cancelled, files, next, tpc,
                   attempt, success, lastErr, semaphore, mu, procSummary,
                   studentDataList, backups, outputs, backupLog,
                   cancelBeforeSuccess>>

SkipUpdate ==
    /\ pc = "update"
    /\ ~ShouldUpdateMaster
    /\ pc' = "finalize"
    /\ UNCHANGED <<mergeVars, readerVars, walkVars, guiVars>>
    /\ UNCHANGED <<cfg, masterDoc, batch, dryRun, cancelled, files, next, tpc, attempt, success,
                   lastErr, semaphore, mu, procSummary, studentDataList,
                   summary, retErr, master, backups, outputs,
                   backupLog, cancelBeforeSuccess>>

\* Variant: a failed output copy makes ProcessFiles return an error.
SaveMasterSheetCopy_fatal(ok) ==
    /\ pc = "copy"
    /\ outputs' = IF ok THEN Append(outputs, master) ELSE outputs
    /\ IF ok THEN pc' = "finalize" /\ UNCHANGED retErr
             ELSE pc' = "returned" /\ retErr' = "failed to save master sheet copy"
    /\ UNCHANGED <<mergeVars, readerVars, walkVars, guiVars>>
    /\ UNCHANGED <<cfg, masterDoc, batch, dryRun, cancelled, files, next, tpc, attempt, success,
                   lastErr, semaphore, mu, procSummary, studentDataList,
                   summary, master, backups, backupLog, cancelBeforeSuccess>>

\* Variant: a failed output copy is added to the errors of the summary.
SaveMasterSheetCopy_recordsFailure(ok) ==
    /\ pc = "copy"
    /\ outputs' = IF ok THEN Append(outputs, master) ELSE outputs
    /\ summary' = IF ok THEN summary
                        ELSE [summary EXCEPT !.Errors = Append(@, 0)]
    /\ pc' = "finalize"
    /\ UNCHANGED <<mergeVars, readerVars, walkVars, guiVars>>
    /\ UNCHANGED <<cfg, masterDoc, batch, dryRun, cancelled, files, next, tpc, attempt, success,
                   lastErr, semaphore, mu, procSummary, studentDataList,
                   retErr, master, backups, backupLog, cancelBeforeSuccess>>

\* Writer.SaveMasterSheetCopy; its failure is logged and nothing else.
SaveMasterSheetCopy(ok) ==
    /\ pc = "copy"
    /\ outputs' = IF ok THEN Append(outputs, master) ELSE outputs
    /\ pc' = "finalize"
    /\ UNCHANGED <<mergeVars, readerVars, walkVars, guiVars>>
    /\ UNCHANGED <<cfg, masterDoc, batch, dryRun, cancelled, files, next, tpc, attempt, success,
                   lastErr, semaphore, mu, procSummary, studentDataList,
                   summary, retErr, master, backups, backupLog, cancelBeforeSuccess>>

\* `return summary, nil` at the end of ProcessFiles
Finalize ==
    /\ pc = "finalize"
    /\ \E now \in LaterInstants : summary' = [summary EXCEPT !.EndTime = now]
    /\ retErr' = "nil"
    /\ pc' = "returned"
    /\ UNCHANGED <<mergeVars, readerVars, walkVars, guiVars>>
    /\ UNCHANGED <<cfg, masterDoc, batch, dryRun, cancelled, files, next, tpc, attempt, success,
                   lastErr, semaphore, mu, procSummary, studentDataList,
                   master, backups, outputs, backupLog, cancelBeforeSuccess>>

\* ---------------------------------------------------------- cancellation

\* cancel() of the caller (signal handler of main, Stop button of the GUI)
\* or the deadline of context.WithTimeout, while ProcessFiles has not
\* returned.
Cancel ==
    /\ ~cancelled
    /\ pc # "returned"
    /\ cancelled' = TRUE
    /\ cancelBeforeSuccess' =
          \A i \in FileIds : tpc[i] = "pending" /\ ~success[i]
    /\ UNCHANGED <<mergeVars, readerVars, walkVars, guiVars>>
    /\ UNCHANGED <<cfg, masterDoc, batch, dryRun, pc, files, next, tpc, attempt, success,
                   lastErr, semaphore, mu, procSummary, studentDataList,
                   summary, retErr, master, backups, outputs, backupLog>>

\* ------------------------------------------------------------------ Next

FileLists == UNION {[1..n -> FileKinds] : n \in 0..NumFiles}

Next ==
    \/ \E d \in BOOLEAN : ValidateMasterSheet(d)
    \/ \E fs \in FileLists : FindExcelFiles(fs)
    \/ \E out \in BackupOutcomes : CreateBackup(out)
    \/ SkipBackup
    \/ SpawnNext
    \/ LoopDone
    \/ \E i \in FileIds : Acquire(i)
    \/ \E i \in FileIds, out \in {"ok", "validation", "io"} : ReadStudentData(i, out)
    \/ \E i \in FileIds : SleepReturns(i)
    \/ \E i \in FileIds : Lock(i)
    \/ \E i \in FileIds : UpdateSummary(i)
    \/ \E i \in FileIds : Finish(i)
    \/ WgWait
    \/ \E out \in UpdateOutcomes, found \in SUBSET FileIds, marked \in SUBSET FileIds :
          BatchUpdateMasterSheet(out, found, marked)
    \/ ApplyRecord
    \/ \E ok \in BOOLEAN : SaveMaster(ok)
    \/ SkipUpdate
    \/ \E ok \in BOOLEAN : SaveMasterSheetCopy(ok)
    \/ Finalize
    \/ Cancel

Spec == Init /\ [][Next]_vars

RetrySpec == RetryInit /\ [][Next]_vars

\* The steps of the goroutine that runs ProcessFiles, from its call on.
ProcessFilesStep ==
    \/ \E d \in BOOLEAN : ValidateMasterSheet(d)
    \/ \E fs \in FileLists : FindExcelFiles(fs)
    \/ \E out \in BackupOutcomes : CreateBackup(out)
    \/ SkipBackup
    \/ SpawnNext
    \/ LoopDone
    \/ WgWait
    \/ \E out \in UpdateOutcomes, found \in SUBSET FileIds, marked \in SUBSET FileIds :
          BatchUpdateMasterSheet(out, found, marked)
    \/ ApplyRecord
    \/ \E ok \in BOOLEAN : SaveMaster(ok)
    \/ SkipUpdate
    \/ \E ok \in BOOLEAN : SaveMasterSheetCopy(ok)
    \/ Finalize

\* The steps of the goroutine started for file i.
GoroutineStep(i) ==
    \/ Acquire(i)
    \/ \E out \in {"ok", "validation", "io"} : ReadStudentData(i, out)
    \/ SleepReturns(i)
    \/ Lock(i)
    \/ UpdateSummary(i)
    \/ Finish(i)

\* The Go scheduler runs every goroutine that can take a step, and every
\* call into the file system, the workbook library and time.Sleep returns;
\* cancel() may never come.
LiveSpec ==
    /\ Init
    /\ [][Next]_vars
    /\ WF_vars(ProcessFilesStep)
    /\ \A i \in FileIds : WF_vars(GoroutineStep(i))


\* ------------------------------------ Writer.BatchUpdateMasterSheet by cell
\* The merge on its own: the worksheet as rows of cells, the student IDs as
\* strings of characters, the marks in thousandths.

\* master_columns of the configuration, one column per mark cell; column B
\* holds the student ID.
MasterColumns == <<"C", "D">>

MarkIdx == 1..Len(MasterColumns)

\* `studentData.Marks[cell] = -1` of ReadStudentData for an empty mark cell
EmptyMark == -1000

\* A cell of a mark column: empty, or a number.
BlankCell == [set |-> FALSE, val |-> 0]

\* What column B of a row can hold, and the student IDs of the records:
\* ReadStudentData has trimmed them and IsValidStudentID let them through.
IdCells == {<<" ", "A">>, <<"b">>, <<>>}

StudentIDs == {<<"A">>, <<"c">>}

\* The marks ReadStudentData accepts: the sentinel of an empty cell, or a
\* number from 0 to 100 with as many decimals as the cell has.
Marks == {EmptyMark, 0, 85556}

\* The marks of a record, one per mark cell: none, a 0 alone, a mark with
\* three decimals alone, both.
MarkVectors ==
    {m \in [MarkIdx -> Marks] :
        m \in {<<EmptyMark, EmptyMark>>, <<0, EmptyMark>>,
               <<EmptyMark, 85556>>, <<85556, 0>>}}

StudentRecords == [id : StudentIDs, marks : MarkVectors]

\* The mark columns of the worksheet before the merge: all empty, or all
\* holding earlier marks.
MarkLayouts ==
    { [r \in 1..SheetRows |-> [c \in MarkIdx |-> BlankCell]],
      [r \in 1..SheetRows |->
          [c \in MarkIdx |-> [set |-> TRUE, val |-> 10000 * r + 1000 * c]]] }

\* unicode.ToLower on the characters of the model
LowerRune(ch) ==
    CASE ch = "A" -> "a"
      [] ch = "B" -> "b"
      [] ch = "C" -> "c"
      [] ch = "L" -> "l"
      [] ch = "N" -> "n"
      [] ch = "S" -> "s"
      [] ch = "X" -> "x"
      [] OTHER -> ch

\* strings.ToLower
ToLower(str) == [k \in 1..Len(str) |-> LowerRune(str[k])]

RECURSIVE TrimLeft(_)
TrimLeft(str) ==
    IF str # <<>> /\ Head(str) = " " THEN TrimLeft(Tail(str)) ELSE str

RECURSIVE TrimRight(_)
TrimRight(str) ==
    IF str # <<>> /\ str[Len(str)] = " "
      THEN TrimRight(SubSeq(str, 1, Len(str) - 1))
      ELSE str

\* strings.TrimSpace
TrimSpace(str) == TrimRight(TrimLeft(str))

\* `len(row) > 1`: GetRows ends a row at its last cell that is not empty,
\* so a row reaches column B when that cell or a later one holds something.
HasColumnB(row) == row.id # <<>> \/ \E c \in MarkIdx : row.marks[c].set

\* Variant: column B is compared without lower-casing it.
RECURSIVE ScanRows_caseSensitive(_, _, _)
ScanRows_caseSensitive(rows, idLower, k) ==
    IF k > Len(rows)
      THEN 0
      ELSE IF HasColumnB(rows[k]) /\ TrimSpace(rows[k].id) = idLower
             THEN k
             ELSE ScanRows_caseSensitive(rows, idLower, k + 1)

\* `for rowIndex, row := range rows`, from the first row of the worksheet
\* (the header row included), returning rowIndex + 1 of the first row whose
\* column B, trimmed and lower-cased, equals idLower; 0 stands for the
\* "not found" error.
RECURSIVE ScanRows(_, _, _)
ScanRows(rows, idLower, k) ==
    IF k > Len(rows)
      THEN 0
      ELSE IF HasColumnB(rows[k]) /\ ToLower(TrimSpace(rows[k].id)) = idLower
             THEN k
             ELSE ScanRows(rows, idLower, k + 1)

\* Variant: the last matching row is returned.
FindStudentInMasterSheet_lastMatch(rows, studentID) ==
    LET idLower == ToLower(TrimSpace(studentID))
        hits == {k \in 1..Len(rows) :
                    HasColumnB(rows[k]) /\ ToLower(TrimSpace(rows[k].id)) = idLower}
    IN IF hits = {} THEN 0 ELSE CHOOSE k \in hits : \A q \in hits : q <= k

\* Reader.FindStudentInMasterSheet
FindStudentInMasterSheet(rows, studentID) ==
    ScanRows(rows, ToLower(TrimSpace(studentID)), 1)

\* SetCellFloat(sheet, cell, mark, 2, 64): the number is stored with two
\* decimals, rounded to the nearest (no mark of the model is a tie).
SetCellFloat(mark) == [set |-> TRUE, val |-> ((mark + 5) \div 10) * 10]

\* Variant: the sentinel of an empty mark cell is written like a mark.
WritesMark_always(mark) == TRUE

\* `if !exists || mark < 0 { continue }`: ReadStudentData stores an entry
\* for every mark cell, so only the sign decides.
WritesMark(mark) == ~(mark < 0)

\* Variant: a mark is added to what the cell holds.
ApplyMarks_accumulates(row, marks) ==
    [row EXCEPT !.marks =
        [c \in MarkIdx |->
            IF WritesMark(marks[c])
              THEN [set |-> TRUE,
                    val |-> row.marks[c].val + SetCellFloat(marks[c]).val]
              ELSE row.marks[c]]]

\* The inner loop over the mark cells on the located row.
ApplyMarks(row, marks) ==
    [row EXCEPT !.marks =
        [c \in MarkIdx |-> IF WritesMark(marks[c]) THEN SetCellFloat(marks[c])
                                                  ELSE row.marks[c]]]

\* BatchUpdateMasterSheet is called with a list of records on a master
\* sheet that opens and has the worksheet.
MergeInit ==
    /\ cfg = [MaxConcurrentFiles |-> 1, RetryAttempts |-> 1,
              BackupEnabled |-> FALSE, SkipInvalidFiles |-> FALSE]
    /\ masterDoc = [opens |-> TRUE, hasSheet |-> TRUE, rows |-> MaxMasterRows]
    /\ ProcessorAtRest
    /\ ReaderIdle
    /\ WalkIdle
    /\ GuiIdle
    /\ records \in UNION {[1..n -> StudentRecords] : n \in 0..MaxRecords}
    /\ \E ids \in [1..SheetRows -> IdCells], layout \in MarkLayouts :
          sheet0 = [r \in 1..SheetRows |-> [id |-> ids[r], marks |-> layout[r]]]
    /\ sheet = sheet0
    /\ sheetPrev = sheet0
    /\ disk = sheet0
    /\ ridx = 0
    /\ msum = EmptySummary
    /\ mpc = "loop"
    /\ located = <<>>
    /\ run = 1
    /\ mode = "first"
    /\ firstRun = [sheet0 |-> <<>>, disk |-> <<>>, msum |-> EmptySummary]

\* Variant: a record that is not found ends the merge with an error, as in
\* UpdateMasterSheet.
ApplyStudentData_abortsOnNotFound ==
    /\ mpc = "loop"
    /\ ridx < Len(records)
    /\ LET studentData == records[ridx + 1]
           rowNumber == FindStudentInMasterSheet(sheet, studentData.id)
           markCount == Cardinality({c \in MarkIdx : WritesMark(studentData.marks[c])})
       IN /\ IF rowNumber = 0
               THEN /\ msum' = [msum EXCEPT !.StudentsNotFound = @ + 1,
                                            !.Warnings = Append(@, ridx + 1)]
                    /\ UNCHANGED sheet
                    /\ mpc' = "failed"
               ELSE /\ sheet' = [sheet EXCEPT ![rowNumber] =
                                    ApplyMarks(@, studentData.marks)]
                    /\ msum' = [msum EXCEPT !.StudentsUpdated =
                                    IF markCount > 0 THEN @ + 1 ELSE @]
                    /\ UNCHANGED mpc
          /\ located' = Append(located, rowNumber)
    /\ sheetPrev' = sheet
    /\ ridx' = ridx + 1
    /\ UNCHANGED <<records, sheet0, disk, run, mode, firstRun>>
    /\ UNCHANGED <<processorVars, readerVars, walkVars, guiVars>>

\* One iteration of `for _, studentData := range studentDataList`.
ApplyStudentData ==
    /\ mpc = "loop"
    /\ ridx < Len(records)
    /\ LET studentData == records[ridx + 1]
           rowNumber == FindStudentInMasterSheet(sheet, studentData.id)
           markCount == Cardinality({c \in MarkIdx : WritesMark(studentData.marks[c])})
       IN /\ IF rowNumber = 0
               THEN /\ msum' = [msum EXCEPT !.StudentsNotFound = @ + 1,
                                            !.Warnings = Append(@, ridx + 1)]
                    /\ UNCHANGED sheet
               ELSE /\ sheet' = [sheet EXCEPT ![rowNumber] =
                                    ApplyMarks(@, studentData.marks)]
                    /\ msum' = [msum EXCEPT !.StudentsUpdated =
                                    IF markCount > 0 THEN @ + 1 ELSE @]
          /\ located' = Append(located, rowNumber)
    /\ sheetPrev' = sheet
    /\ ridx' = ridx + 1
    /\ UNCHANGED <<records, sheet0, disk, mpc, run, mode, firstRun>>
    /\ UNCHANGED <<processorVars, readerVars, walkVars, guiVars>>

\* masterFile.Save() after the loop
SaveDocument(ok) ==
    /\ mpc = "loop"
    /\ ridx = Len(records)
    /\ disk' = IF ok THEN sheet ELSE disk
    /\ mpc' = IF ok THEN "done" ELSE "failed"
    /\ UNCHANGED <<records, sheet, sheet0, sheetPrev, ridx, msum, located, run,
                   mode, firstRun>>
    /\ UNCHANGED <<processorVars, readerVars, walkVars, guiVars>>

MergeNext ==
    \/ ApplyStudentData
    \/ \E ok \in BOOLEAN : SaveDocument(ok)

MergeSpec == MergeInit /\ [][MergeNext]_vars

\* ------------------------------------------------ Writer.UpdateMasterSheet

\* How a call of UpdateMasterSheet can go: nothing fails, or the file does
\* not open, has no master worksheet, or is not saved.
SingleOutcomes == {"ok", "open", "sheet", "save"}

\* UpdateMasterSheet is called with one record on a master sheet.
SingleInit ==
    /\ MergeInit
    /\ Len(records) = 1

\* Variant: a record that is not found is passed over, as in the batch.
UpdateMasterSheet_skipsNotFound(out) ==
    /\ mpc = "loop"
    /\ Len(records) = 1
    /\ ridx = 0
    /\ LET studentData == records[1]
           rowNumber == FindStudentInMasterSheet(sheet, studentData.id)
       IN  IF out \in {"open", "sheet"}
             THEN /\ mpc' = "failed"
                  /\ UNCHANGED <<sheet, disk, located>>
             ELSE IF rowNumber = 0
               THEN /\ located' = <<rowNumber>>
                    /\ mpc' = IF out = "ok" THEN "done" ELSE "failed"
                    /\ UNCHANGED <<sheet, disk>>
               ELSE /\ located' = <<rowNumber>>
                    /\ sheet' = [sheet EXCEPT ![rowNumber] =
                                    ApplyMarks(@, studentData.marks)]
                    /\ disk' = IF out = "ok" THEN sheet' ELSE disk
                    /\ mpc' = IF out = "ok" THEN "done" ELSE "failed"
    /\ sheetPrev' = sheet
    /\ ridx' = 1
    /\ UNCHANGED <<records, sheet0, msum, run, mode, firstRun>>
    /\ UNCHANGED <<processorVars, readerVars, walkVars, guiVars>>

\* Writer.UpdateMasterSheet from OpenFile to its return: mpc is "done" when
\* it returns nil and "failed" when it returns an error.
UpdateMasterSheet(out) ==
    /\ mpc = "loop"
    /\ Len(records) = 1
    /\ ridx = 0
    /\ LET studentData == records[1]
           rowNumber == FindStudentInMasterSheet(sheet, studentData.id)
       IN  IF out \in {"open", "sheet"}
             THEN /\ mpc' = "failed"
                  /\ UNCHANGED <<sheet, disk, located>>
             ELSE IF rowNumber = 0
               THEN /\ located' = <<rowNumber>>
                    /\ mpc' = "failed"
                    /\ UNCHANGED <<sheet, disk>>
               ELSE /\ located' = <<rowNumber>>
                    /\ sheet' = [sheet EXCEPT ![rowNumber] =
                                    ApplyMarks(@, studentData.marks)]
                    /\ disk' = IF out = "ok" THEN sheet' ELSE disk
                    /\ mpc' = IF out = "ok" THEN "done" ELSE "failed"
    /\ sheetPrev' = sheet
    /\ ridx' = 1
    /\ UNCHANGED <<records, sheet0, msum, run, mode, firstRun>>
    /\ UNCHANGED <<processorVars, readerVars, walkVars, guiVars>>

SingleNext == \E out \in SingleOutcomes : UpdateMasterSheet(out)

SingleSpec == SingleInit /\ [][SingleNext]_vars

\* ------------------------------------------- the merge called a second time

\* The orders in which n goroutines can append their records to
\* studentDataList.
Orders(n) == {p \in [1..n -> 1..n] : \A i, j \in 1..n : p[i] = p[j] => i = j}

\* The master file is put back from the backup, which holds its content
\* from before the first call, and BatchUpdateMasterSheet is called with the
\* same list.
RestoreAndRerun ==
    /\ mpc = "done"
    /\ run = 1
    /\ firstRun' = [sheet0 |-> sheet0, disk |-> disk, msum |-> msum]
    /\ disk' = sheet0
    /\ sheet' = sheet0
    /\ sheetPrev' = sheet0
    /\ ridx' = 0
    /\ msum' = EmptySummary
    /\ located' = <<>>
    /\ run' = 2
    /\ mode' = "restored"
    /\ mpc' = "loop"
    /\ UNCHANGED <<records, sheet0>>
    /\ UNCHANGED <<processorVars, readerVars, walkVars, guiVars>>

\* BatchUpdateMasterSheet is called with the same list on the master file
\* the first call saved.
RunAgain ==
    /\ mpc = "done"
    /\ run = 1
    /\ firstRun' = [sheet0 |-> sheet0, disk |-> disk, msum |-> msum]
    /\ sheet0' = disk
    /\ sheet' = disk
    /\ sheetPrev' = disk
    /\ ridx' = 0
    /\ msum' = EmptySummary
    /\ located' = <<>>
    /\ run' = 2
    /\ mode' = "again"
    /\ mpc' = "loop"
    /\ UNCHANGED <<records, disk>>
    /\ UNCHANGED <<processorVars, readerVars, walkVars, guiVars>>

\* The same files are processed on the restored master file and their
\* goroutines append the records in the order p.
RerunReordered(p) ==
    /\ mpc = "done"
    /\ run = 1
    /\ p \in Orders(Len(records))
    /\ records' = [k \in 1..Len(records) |-> records[p[k]]]
    /\ firstRun' = [sheet0 |-> sheet0, disk |-> disk, msum |-> msum]
    /\ disk' = sheet0
    /\ sheet' = sheet0
    /\ sheetPrev' = sheet0
    /\ ridx' = 0
    /\ msum' = EmptySummary
    /\ located' = <<>>
    /\ run' = 2
    /\ mode' = "reordered"
    /\ mpc' = "loop"
    /\ UNCHANGED sheet0
    /\ UNCHANGED <<processorVars, readerVars, walkVars, guiVars>>

RerunNext ==
    \/ ApplyStudentData
    \/ \E ok \in BOOLEAN : SaveDocument(ok)
    \/ RestoreAndRerun
    \/ RunAgain
    \/ \E p \in Orders(Len(records)) : RerunReordered(p)

RerunSpec == MergeInit /\ [][RerunNext]_vars

\* ------------------------------------------------ Reader.ReadStudentData

Digits == <<"0", "1", "2", "3", "4", "5", "6", "7", "8", "9">>

IsDigit(ch) == \E d \in 1..Len(Digits) : Digits[d] = ch

DigitValue(ch) == (CHOOSE d \in 1..Len(Digits) : Digits[d] = ch) - 1

\* 'a'..'z' and 'A'..'Z'
Letters ==
    {"a", "b", "c", "d", "e", "f", "g", "h", "i", "j", "k", "l", "m", "n", "o",
     "p", "q", "r", "s", "t", "u", "v", "w", "x", "y", "z", "A", "B", "C", "D",
     "E", "F", "G", "H", "I", "J", "K", "L", "M", "N", "O", "P", "Q", "R", "S",
     "T", "U", "V", "W", "X", "Y", "Z"}

\* StudentData.IsValidStudentID
IsValidStudentID(id) ==
    /\ id # <<>>
    /\ \A k \in 1..Len(id) : id[k] \in Letters \/ IsDigit(id[k])

\* The number a string of digits denotes.
RECURSIVE Mantissa(_)
Mantissa(ds) ==
    IF ds = <<>> THEN 0
    ELSE 10 * Mantissa(SubSeq(ds, 1, Len(ds) - 1)) + DigitValue(ds[Len(ds)])

\* strconv.ParseFloat(markValue, 64) on texts of digits, '.', '+', '-',
\* blanks and the letters a, n, N and A (no exponent, no hexadecimal form,
\* no "Inf"): "NaN" in any case is the not-a-number value, an optional sign
\* and digits with at most one point are the number num / 10^scale, every
\* other text is a syntax error.
ParseFloat(t) ==
    LET signed == t # <<>> /\ t[1] \in {"+", "-"}
        body == IF signed THEN Tail(t) ELSE t
        points == {k \in 1..Len(body) : body[k] = "."}
        wellFormed ==
            /\ \A k \in 1..Len(body) : IsDigit(body[k]) \/ body[k] = "."
            /\ Cardinality(points) <= 1
            /\ \E k \in 1..Len(body) : IsDigit(body[k])
        mantissa == Mantissa(SelectSeq(body, IsDigit))
    IN  IF ToLower(t) = <<"n", "a", "n">>
          THEN [err |-> FALSE, nan |-> TRUE, num |-> 0, scale |-> 0]
          ELSE IF wellFormed
            THEN [err |-> FALSE, nan |-> FALSE,
                  num |-> IF t[1] = "-" THEN 0 - mantissa ELSE mantissa,
                  scale |-> IF points = {} THEN 0
                            ELSE Len(body) - (CHOOSE k \in points : TRUE)]
            ELSE [err |-> TRUE, nan |-> FALSE, num |-> 0, scale |-> 0]

\* `mark < 0` and `mark > 100` on float64: both are false of NaN.
Below0(mark) == ~mark.nan /\ mark.num < 0

Above100(mark) == ~mark.nan /\ mark.num > 100 * 10^(mark.scale)

\* `studentData.Marks[cell] = -1` for an empty mark cell
Absent == [nan |-> FALSE, num |-> -1, scale |-> 0]

\* Texts of the student ID cell and of a mark cell.
IdTexts ==
    {<<>>, <<" ">>, <<"A", "1">>, <<" ", "A", "1", " ">>, <<"A", " ", "1">>,
     <<"A", "-", "1">>, <<"b">>, <<"1", "!">>}

MarkTexts ==
    {<<>>, <<" ">>, <<"0">>, <<"5", "0">>, <<" ", "5", "0", " ">>,
     <<"1", "0", "0">>, <<"1", "0", "0", ".", "0", "0", "1">>,
     <<"1", "0", "1">>, <<"-", "1">>, <<"-", "0">>, <<"-", "0", ".", "0", "1">>,
     <<"9", "9", ".", "5">>, <<"+", "5">>, <<".">>, <<"1", ".", "5", ".">>,
     <<"a">>, <<"5", "a">>, <<"N", "a", "N">>, <<"n", "a", "n">>}

\* What file.GetCellValue returns for a cell: an error, or its text.
Cells(texts) ==
    {[err |-> TRUE, text |-> <<>>]} \cup {[err |-> FALSE, text |-> t] : t \in texts}

\* A student file: one whose extension is refused, one excelize does not
\* open, one without the worksheet, or a workbook with the worksheet, its
\* ID cell and one mark cell per configured mark column.
StudentFiles ==
    {[kind |-> k, id |-> [err |-> FALSE, text |-> <<>>], marks |-> <<>>] :
        k \in {"badext", "noopen", "nosheet"}}
    \cup [kind : {"ok"}, id : Cells(IdTexts), marks : [MarkIdx -> Cells(MarkTexts)]]

FileProcessingError(stage) ==
    [type |-> "FileProcessingError", stage |-> stage, cell |-> 0]

ValidationError(field, k) ==
    [type |-> "ValidationError", stage |-> field, cell |-> k]

\* ReadStudentData is called on a student file.
ReadInit ==
    /\ cfg = [MaxConcurrentFiles |-> 1, RetryAttempts |-> 1,
              BackupEnabled |-> FALSE, SkipInvalidFiles |-> FALSE]
    /\ masterDoc = [opens |-> TRUE, hasSheet |-> TRUE, rows |-> MaxMasterRows]
    /\ ProcessorAtRest
    /\ MergeIdle
    /\ WalkIdle
    /\ GuiIdle
    /\ rfile \in StudentFiles
    /\ rpc = "ext"
    /\ rdata = <<>>
    /\ rret = <<>>
    /\ rerr = NoError

\* `return nil, err`
ReturnError(err) ==
    /\ rret' = <<>>
    /\ rerr' = err
    /\ rpc' = "returned"

\* The check of the file extension.
CheckExtension ==
    /\ rpc = "ext"
    /\ IF rfile.kind = "badext"
         THEN ReturnError(FileProcessingError("validation"))
         ELSE rpc' = "open" /\ UNCHANGED <<rret, rerr>>
    /\ UNCHANGED <<rfile, rdata>>
    /\ UNCHANGED <<processorVars, mergeVars, walkVars, guiVars>>

\* excelize.OpenFile
OpenFile ==
    /\ rpc = "open"
    /\ IF rfile.kind = "noopen"
         THEN ReturnError(FileProcessingError("opening"))
         ELSE rpc' = "sheet" /\ UNCHANGED <<rret, rerr>>
    /\ UNCHANGED <<rfile, rdata>>
    /\ UNCHANGED <<processorVars, mergeVars, walkVars, guiVars>>

\* The search of the worksheet in file.GetSheetList().
CheckWorksheet ==
    /\ rpc = "sheet"
    /\ IF rfile.kind = "nosheet"
         THEN ReturnError(FileProcessingError("worksheet_validation"))
         ELSE rpc' = "id" /\ UNCHANGED <<rret, rerr>>
    /\ UNCHANGED <<rfile, rdata>>
    /\ UNCHANGED <<processorVars, mergeVars, walkVars, guiVars>>

\* Variant: the ID is validated as the cell holds it.
ReadStudentID_untrimmed ==
    /\ rpc = "id"
    /\ LET studentID == rfile.id.text
       IN  IF rfile.id.err
             THEN /\ ReturnError(FileProcessingError("student_id_reading"))
                  /\ UNCHANGED rdata
             ELSE IF studentID = <<>>
               THEN /\ ReturnError(ValidationError("student_id", 0))
                    /\ UNCHANGED rdata
               ELSE /\ rdata' = <<[StudentID |-> studentID, Marks |-> <<>>]>>
                    /\ IF ~IsValidStudentID(studentID)
                         THEN ReturnError(ValidationError("student_id", 0))
                         ELSE rpc' = "marks" /\ UNCHANGED <<rret, rerr>>
    /\ UNCHANGED rfile
    /\ UNCHANGED <<processorVars, mergeVars, walkVars, guiVars>>

\* From file.GetCellValue of the ID cell to IsValidStudentID.
ReadStudentID ==
    /\ rpc = "id"
    /\ LET studentID == TrimSpace(rfile.id.text)
       IN  IF rfile.id.err
             THEN /\ ReturnError(FileProcessingError("student_id_reading"))
                  /\ UNCHANGED rdata
             ELSE IF studentID = <<>>
               THEN /\ ReturnError(ValidationError("student_id", 0))
                    /\ UNCHANGED rdata
               ELSE /\ rdata' = <<[StudentID |-> studentID, Marks |-> <<>>]>>
                    /\ IF ~IsValidStudentID(studentID)
                         THEN ReturnError(ValidationError("student_id", 0))
                         ELSE rpc' = "marks" /\ UNCHANGED <<rret, rerr>>
    /\ UNCHANGED rfile
    /\ UNCHANGED <<processorVars, mergeVars, walkVars, guiVars>>

\* One iteration of the loop over r.config.MarkCells.
ReadMark ==
    /\ rpc = "marks"
    /\ LET k == Len(rdata[1].Marks) + 1
       IN  /\ k <= Len(rfile.marks)
           /\ LET markValue == TrimSpace(rfile.marks[k].text)
                  mark == ParseFloat(markValue)
                  store(v) ==
                      /\ rdata' = <<[rdata[1] EXCEPT !.Marks = Append(@, v)]>>
                      /\ UNCHANGED <<rpc, rret, rerr>>
                  fail(e) == ReturnError(e) /\ UNCHANGED rdata
              IN  IF rfile.marks[k].err
                    THEN fail([FileProcessingError("mark_reading") EXCEPT !.cell = k])
                    ELSE IF markValue = <<>>
                      THEN store(Absent)
                      ELSE IF mark.err
                        THEN fail(ValidationError("mark", k))
                        ELSE IF Below0(mark) \/ Above100(mark)
                          THEN fail(ValidationError("mark", k))
                          ELSE store([nan |-> mark.nan, num |-> mark.num,
                                      scale |-> mark.scale])
    /\ UNCHANGED rfile
    /\ UNCHANGED <<processorVars, mergeVars, walkVars, guiVars>>

\* `return studentData, nil`
ReturnStudentData ==
    /\ rpc = "marks"
    /\ Len(rdata[1].Marks) = Len(rfile.marks)
    /\ rret' = rdata
    /\ rerr' = [type |-> "nil", stage |-> "", cell |-> 0]
    /\ rpc' = "returned"
    /\ UNCHANGED <<rfile, rdata>>
    /\ UNCHANGED <<processorVars, mergeVars, walkVars, guiVars>>

ReadNext ==
    \/ CheckExtension
    \/ OpenFile
    \/ CheckWorksheet
    \/ ReadStudentID
    \/ ReadMark
    \/ ReturnStudentData

ReadSpec == ReadInit /\ [][ReadNext]_vars

\* ------------------------------------------------ Processor.findExcelFiles

\* The entries of the tree by number, the root first, and the entries of
\* each directory in the order readDirNames sorts them.
Children == << <<2, 3>>, <<4, 5>>, <<>>, <<6>>, <<>>, <<>> >>

Root == 1

\* The names of the model in the byte order of sort.Strings.
NameOrder ==
    << <<"a", ".", "x", "l", "s", "x">>, <<"b", ".", "X", "L", "S">>,
       <<"b", ".", "x", "l", "s">>, <<"c", ".", "t", "x", "t">>, <<"d">>,
       <<"x", "l", "s", "x">> >>

NameRank(name) == CHOOSE k \in 1..Len(NameOrder) : NameOrder[k] = name

\* What Lstat and ReadDir find of an entry: regular files with and without
\* an Excel extension, directories that can and cannot be read, a directory
\* with an Excel extension, an entry Lstat fails on, a symbolic link.
Entries ==
    {[name |-> NameOrder[1], kind |-> "file", lstat |-> TRUE, readable |-> TRUE],
     [name |-> NameOrder[2], kind |-> "file", lstat |-> TRUE, readable |-> TRUE],
     [name |-> NameOrder[4], kind |-> "file", lstat |-> TRUE, readable |-> TRUE],
     [name |-> NameOrder[6], kind |-> "file", lstat |-> TRUE, readable |-> TRUE],
     [name |-> NameOrder[5], kind |-> "dir", lstat |-> TRUE, readable |-> TRUE],
     [name |-> NameOrder[5], kind |-> "dir", lstat |-> TRUE, readable |-> FALSE],
     [name |-> NameOrder[1], kind |-> "dir", lstat |-> TRUE, readable |-> TRUE],
     [name |-> NameOrder[1], kind |-> "file", lstat |-> FALSE, readable |-> TRUE],
     [name |-> NameOrder[3], kind |-> "symlink", lstat |-> TRUE, readable |-> TRUE]}

\* What StudentFilesFolder can be: a directory, readable or not, a path that
\* does not exist, a file.
Roots ==
    {e \in Entries : e.name = NameOrder[5]}
    \cup {e \in Entries : e.name = NameOrder[1] /\ e.kind = "file"}

\* An entry that is not there: Lstat fails on it.
Missing ==
    [name |-> NameOrder[1], kind |-> "file", lstat |-> FALSE, readable |-> TRUE]

\* The entries of a directory have different names and come in the order of
\* their names; there are no entries below what is not a directory.
Trees ==
    {t \in [1..Len(Children) -> Entries] :
        /\ t[Root] \in Roots
        /\ \A d \in 1..Len(Children) :
              IF t[d].lstat /\ t[d].kind = "dir"
                THEN \A i, j \in 1..Len(Children[d]) :
                        i < j => NameRank(t[Children[d][i]].name)
                                   < NameRank(t[Children[d][j]].name)
                ELSE \A i \in 1..Len(Children[d]) : t[Children[d][i]] = Missing}

\* filepath.Ext on the last element of the path
Ext(name) ==
    LET dots == {k \in 1..Len(name) : name[k] = "."}
    IN  IF dots = {} THEN <<>>
        ELSE SubSeq(name, CHOOSE k \in dots : \A j \in dots : j <= k, Len(name))

ExcelExtensions == {<<".", "x", "l", "s", "x">>, <<".", "x", "l", "s">>}

\* Variant: the extension is compared as it is written.
WalkFn_caseSensitive(t, n, err) ==
    IF err
      THEN [files |-> <<>>, logged |-> <<n>>]
      ELSE IF t[n].kind = "dir"
        THEN [files |-> <<>>, logged |-> <<>>]
        ELSE IF Ext(t[n].name) \in ExcelExtensions
          THEN [files |-> <<n>>, logged |-> <<>>]
          ELSE [files |-> <<>>, logged |-> <<>>]

\* The callback findExcelFiles gives to filepath.Walk: what it appends to
\* excelFiles and what it passes to LogFileError; it always returns nil.
WalkFn(t, n, err) ==
    IF err
      THEN [files |-> <<>>, logged |-> <<n>>]
      ELSE IF t[n].kind = "dir"
        THEN [files |-> <<>>, logged |-> <<>>]
        ELSE IF ToLower(Ext(t[n].name)) \in ExcelExtensions
          THEN [files |-> <<n>>, logged |-> <<>>]
          ELSE [files |-> <<>>, logged |-> <<>>]

\* filepath.Walk with a callback that returns nil: Lstat of the entry, the
\* callback on it, and, for a directory readDirNames reads, the same on
\* each of its entries in turn.
RECURSIVE Walk(_, _)
RECURSIVE WalkNames(_, _)
Walk(t, n) ==
    IF ~t[n].lstat
      THEN WalkFn(t, n, TRUE)
      ELSE IF t[n].kind # "dir"
        THEN WalkFn(t, n, FALSE)
        ELSE IF ~t[n].readable
          THEN WalkFn(t, n, TRUE)
          ELSE LET here == WalkFn(t, n, FALSE)
                   below == WalkNames(t, Children[n])
               IN  [files |-> here.files \o below.files,
                    logged |-> here.logged \o below.logged]

WalkNames(t, names) ==
    IF names = <<>>
      THEN [files |-> <<>>, logged |-> <<>>]
      ELSE LET first == Walk(t, Head(names))
               rest == WalkNames(t, Tail(names))
           IN  [files |-> first.files \o rest.files,
                logged |-> first.logged \o rest.logged]

\* findExcelFiles(rootDir): Walk returns nil, so the error is nil.
FindExcelFilesIn(t) ==
    LET w == Walk(t, Root)
    IN  [excelFiles |-> w.files, err |-> "nil", logged |-> w.logged]

\* ProcessFiles and GetProcessingStatistics have not been called on a tree.
WalkInit ==
    /\ cfg = [MaxConcurrentFiles |-> 1, RetryAttempts |-> 1,
              BackupEnabled |-> FALSE, SkipInvalidFiles |-> FALSE]
    /\ masterDoc = [opens |-> TRUE, hasSheet |-> TRUE, rows |-> MaxMasterRows]
    /\ ProcessorAtRest
    /\ MergeIdle
    /\ ReaderIdle
    /\ GuiIdle
    /\ tree \in Trees
    /\ walkOut = <<>>
    /\ walkLog = <<>>
    /\ walkSummary = [TotalFiles |-> 0, Errors |-> <<>>]
    /\ stats = <<>>

\* ProcessFiles from its call of findExcelFiles to summary.TotalFiles.
DiscoverStudentFiles ==
    /\ walkOut = <<>>
    /\ LET found == FindExcelFilesIn(tree)
       IN  /\ walkOut' = <<[excelFiles |-> found.excelFiles, err |-> found.err]>>
           /\ walkLog' = walkLog \o found.logged
           /\ walkSummary' = [walkSummary EXCEPT !.TotalFiles = Len(found.excelFiles)]
    /\ UNCHANGED <<tree, stats>>
    /\ UNCHANGED <<processorVars, mergeVars, readerVars, guiVars>>

\* Processor.GetProcessingStatistics
GetProcessingStatistics ==
    /\ stats = <<>>
    /\ LET found == FindExcelFilesIn(tree)
       IN  /\ stats' = <<IF found.err # "nil"
                           THEN [error |-> found.err, total_excel_files |-> 0]
                           ELSE [error |-> "nil",
                                 total_excel_files |-> Len(found.excelFiles)]>>
           /\ walkLog' = walkLog \o found.logged
    /\ UNCHANGED <<tree, walkOut, walkSummary>>
    /\ UNCHANGED <<processorVars, mergeVars, readerVars, guiVars>>

WalkNext ==
    \/ DiscoverStudentFiles
    \/ GetProcessingStatistics

WalkSpec == WalkInit /\ [][WalkNext]_vars

\* ------------------------------------------------- gui: App processing

\* How the preparation of startProcessing can go: nothing fails, or
\* buildConfigFromUI, validatePaths, EnsureDirectories or NewLogger does.
Setups == {"ok", "config", "paths", "directories", "logger"}

\* The text startProcessing hands to showError for a failed preparation.
SetupError(setup) ==
    CASE setup = "config" -> "Configuration error"
      [] setup = "paths" -> "Path validation failed"
      [] setup = "directories" -> "Failed to create directories"
      [] setup = "logger" -> "Failed to initialize logger"

\* The starts that got as far as `go a.runProcessing(dryRun)`.
Started == {k \in 1..MaxRuns : runProc[k].pc # "none"}

\* The runProcessing goroutines that have not returned.
ActiveRuns == {k \in 1..MaxRuns : runProc[k].pc \notin {"none", "returned"}}

\* An App after NewApp and setupUI.
GuiInit ==
    /\ cfg = [MaxConcurrentFiles |-> 1, RetryAttempts |-> 1,
              BackupEnabled |-> FALSE, SkipInvalidFiles |-> FALSE]
    /\ masterDoc = [opens |-> TRUE, hasSheet |-> TRUE, rows |-> MaxMasterRows]
    /\ ProcessorAtRest
    /\ MergeIdle
    /\ ReaderIdle
    /\ WalkIdle
    /\ GuiIdle

\* App.startProcessing, the handler of the Start and Dry Run buttons, on
\* the event goroutine; it ends with `go a.runProcessing(dryRun)`.
startProcessing(dry, setup) ==
    /\ (~uiIsProcessing /\ setup = "ok") => Cardinality(Started) < MaxRuns
    /\ IF uiIsProcessing
         THEN /\ shownError' = "Processing is already in progress"
              /\ UNCHANGED <<isProcessing, uiIsProcessing, processor,
                             processingContext, status, progressShown, runProc>>
         ELSE IF setup # "ok"
                THEN /\ shownError' = SetupError(setup)
                     /\ UNCHANGED <<isProcessing, uiIsProcessing, processor,
                                    processingContext, status, progressShown,
                                    runProc>>
                ELSE LET id == Cardinality(Started) + 1
                     IN /\ isProcessing' = TRUE
                        /\ uiIsProcessing' = TRUE
                        /\ processor' = id
                        /\ processingContext' = id
                        /\ progressShown' = TRUE
                        /\ status' = IF dry THEN "Running dry run..."
                                            ELSE "Processing files..."
                        /\ runProc' = [runProc EXCEPT ![id] =
                                          [pc |-> "started", dryRun |-> dry,
                                           processor |-> 0, ctx |-> 0]]
                        /\ UNCHANGED shownError
    /\ UNCHANGED ctxDone
    /\ UNCHANGED <<processorVars, mergeVars, readerVars, walkVars>>

\* App.stopProcessing, the handler of the Stop button, on the event
\* goroutine.
stopProcessing ==
    /\ IF ~uiIsProcessing
         THEN UNCHANGED <<ctxDone, status>>
         ELSE /\ ctxDone' = IF processingContext # 0
                               THEN ctxDone \cup {processingContext}
                               ELSE ctxDone
              /\ status' = "Stopping processing..."
    /\ UNCHANGED <<isProcessing, uiIsProcessing, processor, processingContext,
                   progressShown, shownError, runProc>>
    /\ UNCHANGED <<processorVars, mergeVars, readerVars, walkVars>>

\* runProcessing up to its call of ProcessFiles, for which it reads
\* a.processor and a.processingContext.
CallProcessFiles(k) ==
    /\ runProc[k].pc = "started"
    /\ status' = IF runProc[k].dryRun THEN "Starting dry run..."
                                      ELSE "Starting file processing..."
    /\ runProc' = [runProc EXCEPT ![k].pc = "processing",
                                  ![k].processor = processor,
                                  ![k].ctx = processingContext]
    /\ UNCHANGED <<isProcessing, uiIsProcessing, processor, processingContext,
                   ctxDone, progressShown, shownError>>
    /\ UNCHANGED <<processorVars, mergeVars, readerVars, walkVars>>

\* ProcessFiles returns to runProcessing with an error or without one, and
\* runProcessing reports the result; what is left is its deferred function.
ProcessFilesReturns(k, err) ==
    /\ runProc[k].pc = "processing"
    /\ IF err
         THEN IF processingContext \in ctxDone
                THEN /\ status' = "Processing cancelled"
                     /\ UNCHANGED shownError
                ELSE /\ status' = "Processing failed"
                     /\ shownError' = "Processing failed"
         ELSE /\ status' = "Processing completed"
              /\ UNCHANGED shownError
    /\ runProc' = [runProc EXCEPT ![k].pc = "deferred"]
    /\ UNCHANGED <<isProcessing, uiIsProcessing, processor, processingContext,
                   ctxDone, progressShown>>
    /\ UNCHANGED <<processorVars, mergeVars, readerVars, walkVars>>

\* `a.isProcessing = false` in the deferred function of runProcessing: a
\* write by the goroutine of a field the event goroutine reads, with no
\* synchronisation between the two.
DeferredReset(k) ==
    /\ runProc[k].pc = "deferred"
    /\ isProcessing' = FALSE
    /\ runProc' = [runProc EXCEPT ![k].pc = "ui"]
    /\ UNCHANGED <<uiIsProcessing, processor, processingContext, ctxDone,
                   status, progressShown, shownError>>
    /\ UNCHANGED <<processorVars, mergeVars, readerVars, walkVars>>

\* The write of the goroutine reaches the event goroutine.
WriteVisible ==
    /\ uiIsProcessing # isProcessing
    /\ uiIsProcessing' = isProcessing
    /\ UNCHANGED <<isProcessing, processor, processingContext, ctxDone, status,
                   progressShown, shownError, runProc>>
    /\ UNCHANGED <<processorVars, mergeVars, readerVars, walkVars>>

\* `a.updateProcessingUI(false, dryRun)` in the deferred function, after
\* which runProcessing has returned.
DeferredUpdateUI(k) ==
    /\ runProc[k].pc = "ui"
    /\ progressShown' = FALSE
    /\ status' = "Ready"
    /\ runProc' = [runProc EXCEPT ![k].pc = "returned"]
    /\ UNCHANGED <<isProcessing, uiIsProcessing, processor, processingContext,
                   ctxDone, shownError>>
    /\ UNCHANGED <<processorVars, mergeVars, readerVars, walkVars>>

GuiNext ==
    \/ \E dry \in BOOLEAN, setup \in Setups : startProcessing(dry, setup)
    \/ stopProcessing
    \/ \E k \in 1..MaxRuns :
          \/ CallProcessFiles(k)
          \/ \E err \in BOOLEAN : ProcessFilesReturns(k, err)
          \/ DeferredReset(k)
          \/ DeferredUpdateUI(k)
    \/ WriteVisible

GuiSpec == GuiInit /\ [][GuiNext]_vars


\* ======================================================== properties

Count(seq, x) == Cardinality({k \in 1..Len(seq) : seq[k] = x})

\* ProcessFiles is past the point where it waits for the goroutines.
ExtractionOver == pc \in {"update", "apply", "copy", "finalize"}
                  \/ (pc = "returned" /\ retErr \in {"nil", "failed to update master sheet"}
                      /\ Len(files) > 0)

\* C1: at no time do more than MaxConcurrentFiles tasks hold an admission
\* slot (from acquiring it to releasing it, the waits between retries
\* included).
C1_ConcurrencyBound ==
    Cardinality({i \in FileIds : HoldsSlot(i)}) <= cfg.MaxConcurrentFiles

\* C1 witness: the gate is full with a task sleeping between two attempts
\* while another task waits for a slot.
C1_Witness ==
    \E i, j \in FileIds :
        /\ tpc[i] = "retrywait"
        /\ tpc[j] = "waiting"
        /\ Cardinality({t \in FileIds : HoldsSlot(t)}) = cfg.MaxConcurrentFiles

\* C2: a file whose attempt failed with a data-validation failure is never
\* re-attempted: only I/O failures lead to RetryWait.
C2_ValidationNeverRetried ==
    \A i \in FileIds : tpc[i] = "retrywait" => lastErr[i] = "io"

\* C3: once the context is cancelled, no file that is still Pending enters
\* Extracting.
C3_NoAdmissionAfterCancel ==
    [][cancelled =>
         \A i \in FileIds : TaskState(i) = "Pending" => TaskState(i)' = "Pending"]_vars

\* C4: a run over discovered files that was cancelled before any record
\* succeeded (here: before any goroutine was started), and that did not
\* abort on a fatal error, returns a result that carries a cancelled
\* outcome, distinct from the nil error of a normal completion.
C4_CancelledOutcomeDistinct ==
    (pc = "returned" /\ cancelBeforeSuccess /\ Len(files) > 0
        /\ retErr \notin {"failed to create backup", "failed to update master sheet"})
    => retErr = "context canceled"

\* C5: after cancellation a task in RetryWait does not start another
\* extraction attempt.
C5_CancelledRetryWaitEnds ==
    [][\A i \in FileIds :
          (cancelled /\ tpc[i] = "retrywait") => tpc'[i] # "extracting"]_vars

\* C6: every file that ended Failed or Skipped has exactly one message in
\* Errors or Warnings, and at the end of extraction the number of messages
\* equals FailedFiles + SkippedFiles.
C6_OneMessagePerFailure ==
    /\ \A i \in FileIds :
          (tpc[i] \in {"progress", "done"} /\ ~success[i]) =>
              Count(procSummary.Errors, i) + Count(procSummary.Warnings, i) = 1
    /\ pc = "update" =>
          Len(summary.Errors) + Len(summary.Warnings)
              = summary.FailedFiles + summary.SkippedFiles

\* C7: the summary returned by a dry run satisfies
\* SuccessfulFiles + FailedFiles + SkippedFiles = TotalFiles.
C7_DryRunCountsAddUp ==
    (pc = "returned" /\ dryRun) =>
        summary.SuccessfulFiles + summary.FailedFiles + summary.SkippedFiles
            = summary.TotalFiles

\* C7 witness: a dry run over NumFiles files has returned with both
\* successes and failures counted.
C7_Witness ==
    /\ pc = "returned" /\ dryRun
    /\ summary.TotalFiles = NumFiles
    /\ summary.SuccessfulFiles > 0
    /\ summary.FailedFiles + summary.SkippedFiles > 0

\* C8: a dry run never changes the master sheet, the backup folder or the
\* output folder, whatever was extracted; and in a dry run as in a real
\* run the counts after extraction are those of the files' own outcomes.
C8_DryRunFrame ==
    /\ dryRun => (master = InitialMaster /\ backups = <<>> /\ outputs = <<>>
                  /\ backupLog = <<>>)
    /\ ExtractionOver =>
          /\ summary.SuccessfulFiles =
                 Cardinality({i \in Discovered : success[i]})
          /\ summary.FailedFiles + summary.SkippedFiles =
                 Cardinality({i \in Discovered : ~success[i]})
          /\ \A i \in Discovered : success[i] => files[i] = "valid"

\* C8 witness: a dry run with backups enabled has returned with records
\* extracted.
C8_Witness ==
    /\ pc = "returned" /\ dryRun /\ cfg.BackupEnabled
    /\ Len(studentDataList) > 0
    /\ summary.SuccessfulFiles = Len(studentDataList)

\* C9: CreateBackup is called at most once; it has been called, once the
\* run is past that step, exactly when backups are enabled, the run is not
\* a dry run and a file was discovered; and up to that step no task has
\* started and the master sheet is unchanged, so that every started task
\* and every mutation finds the complete snapshot of the initial master.
C9_SnapshotOnceBeforeMutation ==
    /\ Len(backupLog) <= 1
    /\ pc \in {"idle", "find", "backup"} =>
          /\ backupLog = <<>>
          /\ \A i \in FileIds : tpc[i] = "pending"
          /\ master = InitialMaster
    /\ pc \notin {"idle", "find", "backup"} =>
          (Len(backupLog) = 1 <=>
              (cfg.BackupEnabled /\ ~dryRun /\ Len(files) > 0))
    /\ ((\E i \in FileIds : tpc[i] # "pending") \/ master # InitialMaster) =>
          ((cfg.BackupEnabled /\ ~dryRun) => backups = <<InitialMaster>>)

\* C9 witness: the master has been merged into after a backup was taken.
C9_Witness ==
    /\ backupLog = <<"ok">>
    /\ master.merged # {}
    /\ backups = <<InitialMaster>>

\* C10: if the snapshot fails, ProcessFiles has returned the backup error,
\* no task was started, nothing was extracted, and master sheet and output
\* folder are unchanged.
C10_BackupFailureIsFatal ==
    (Len(backupLog) > 0 /\ backupLog[1] # "ok") =>
        /\ pc = "returned"
        /\ retErr = "failed to create backup"
        /\ \A i \in FileIds : tpc[i] = "pending" /\ attempt[i] = 0
        /\ studentDataList = <<>>
        /\ master = InitialMaster
        /\ outputs = <<>>

\* C10 witness: the copy loop of the backup failed in a real run over
\* NumFiles files.
C10_Witness ==
    /\ backupLog = <<"copy">>
    /\ ~dryRun
    /\ Len(files) = NumFiles
    /\ pc = "returned"

\* C11: every run that goes on after the backup step with a file in the
\* backup folder has there exactly one file, whose content is the master
\* sheet as it was when the run started, whatever has been merged into the
\* master since; only a run that returned the backup error may leave a
\* truncated file behind.
C11_BackupIsPreRunState ==
    /\ backupLog = <<"ok">> => backups = <<InitialMaster>>
    /\ (backups # <<>> /\ ~(pc = "returned" /\ retErr = "failed to create backup"))
          => backups = <<InitialMaster>>

\* C11 witness: the run has returned normally, the master on disk differs
\* from its pre-run content and the backup still holds the pre-run content.
C11_Witness ==
    /\ pc = "returned" /\ retErr = "nil"
    /\ backupLog = <<"ok">>
    /\ master # InitialMaster
    /\ master.merged = Range(studentDataList)
    /\ backups[1] = InitialMaster

C13_SiblingsUnaffected ==
    ExtractionOver =>
        \A i \in Discovered :
            /\ tpc[i] = "done"
            /\ attempt[i] >= 1
            /\ files[i] = "invalid" => ~success[i]
            /\ success[i] => Count(studentDataList, i) = 1
            /\ ~success[i] =>
                  /\ Count(studentDataList, i) = 0
                  /\ lastErr[i] \in ReadOutcomes(files[i]) \ {"ok"}
                  /\ attempt[i] = cfg.RetryAttempts

\* C13 witness: with one slot, one file failed on its content and the other
\* file was extracted and merged.
C13_Witness ==
    /\ pc = "returned"
    /\ cfg.MaxConcurrentFiles = 1
    /\ \E i, j \in Discovered :
          /\ files[i] = "invalid" /\ ~success[i] /\ lastErr[i] = "validation"
          /\ success[j] /\ j \in master.merged

C17_RetriedRetryAttemptsTimes ==
    \A i \in Discovered :
        (files[i] = "valid" /\ ~success[i]
            /\ tpc[i] \in {"result", "crit", "progress", "done"})
        => attempt[i] - 1 = cfg.RetryAttempts

C19_RoundTripExact ==
    mpc = "done" =>
        \A k \in 1..Len(records) :
            LET hit(r) == /\ HasColumnB(sheet0[r])
                          /\ ToLower(TrimSpace(sheet0[r].id))
                                = ToLower(TrimSpace(records[k].id))
            IN \A r \in 1..SheetRows :
                  (hit(r) /\ \A q \in 1..(r - 1) : ~hit(q)) =>
                      \A c \in MarkIdx :
                          IF records[k].marks[c] # EmptyMark
                            THEN disk[r].marks[c] =
                                    [set |-> TRUE, val |-> records[k].marks[c]]
                            ELSE disk[r].marks[c] = sheet0[r].marks[c]

\* C19, amended: right after a record whose ID is in the worksheet has been
\* applied, each mark cell of its row holds the record's mark rounded to two
\* decimals when the record has one, 0 included, and what it held right
\* before when the record has none; and after the merge the file holds the
\* rounded mark unless a later record of the same row has a mark for that
\* column, and holds the pre-merge content when no record of that row has a
\* mark for that column.
C19_RoundTripRounded ==
    LET hit(k, r) == /\ HasColumnB(sheet0[r])
                     /\ ToLower(TrimSpace(sheet0[r].id))
                           = ToLower(TrimSpace(records[k].id))
        first(k, r) == hit(k, r) /\ \A q \in 1..(r - 1) : ~hit(k, q)
        rounded(v) == CHOOSE w \in (v - 4)..(v + 5) : w % 10 = 0
    IN /\ ridx >= 1 =>
             \A r \in 1..SheetRows :
                 first(ridx, r) =>
                     \A c \in MarkIdx :
                         IF records[ridx].marks[c] # EmptyMark
                           THEN sheet[r].marks[c] =
                                   [set |-> TRUE,
                                    val |-> rounded(records[ridx].marks[c])]
                           ELSE sheet[r].marks[c] = sheetPrev[r].marks[c]
       /\ mpc = "done" =>
             \A k \in 1..Len(records), r \in 1..SheetRows, c \in MarkIdx :
                 first(k, r) =>
                     /\ (/\ records[k].marks[c] # EmptyMark
                         /\ \A j \in (k + 1)..Len(records) :
                               first(j, r) => records[j].marks[c] = EmptyMark)
                          => disk[r].marks[c] =
                                [set |-> TRUE, val |-> rounded(records[k].marks[c])]
                     /\ (\A j \in 1..Len(records) :
                               first(j, r) => records[j].marks[c] = EmptyMark)
                          => disk[r].marks[c] = sheet0[r].marks[c]

\* C19 witness: the merge is saved; a record found in a row that held
\* earlier marks brought a mark of 0 and no second mark, another one a mark
\* with three decimals.
C19_Witness ==
    /\ mpc = "done"
    /\ Len(records) = 2
    /\ records[1].id = <<"A">> /\ records[1].marks = <<EmptyMark, 85556>>
    /\ records[2].id = <<"A">> /\ records[2].marks = <<0, EmptyMark>>
    /\ sheet0[2].id = <<" ", "A">> /\ sheet0[1].id = <<"b">>
    /\ sheet0[2].marks[1].set
    /\ disk[2].marks[1] = [set |-> TRUE, val |-> 0]
    /\ disk[2].marks[2] = [set |-> TRUE, val |-> 85560]

\* C20: at every point of the merge, in the open document and in the file,
\* a mark cell differs from its content before the merge only if a record
\* already applied, whose first matching row this is, has a mark for that
\* column; column B and the number of rows never change; in particular a
\* row that matches a record after its first matching row, and every row of
\* a worksheet in which no applied record is found, is as it was.
C20_WritesOnlyTargetCells ==
    LET hit(k, r) == /\ HasColumnB(sheet0[r])
                     /\ ToLower(TrimSpace(sheet0[r].id))
                           = ToLower(TrimSpace(records[k].id))
        first(k, r) == hit(k, r) /\ \A q \in 1..(r - 1) : ~hit(k, q)
        target(r, c) == \E k \in 1..ridx :
                            first(k, r) /\ records[k].marks[c] # EmptyMark
    IN mpc # "off" =>
          /\ Len(sheet) = Len(sheet0)
          /\ disk \in {sheet0, sheet}
          /\ \A r \in 1..SheetRows :
                /\ sheet[r].id = sheet0[r].id
                /\ \A c \in MarkIdx :
                      ~target(r, c) => sheet[r].marks[c] = sheet0[r].marks[c]
                /\ (\E k \in 1..ridx : hit(k, r) /\ ~first(k, r))
                      => sheet[r] = sheet0[r]
          /\ (\A k \in 1..ridx, r \in 1..SheetRows : ~hit(k, r))
                => sheet = sheet0

\* C20 witness: the worksheet holds the same ID in rows 2 and 3; the merge of
\* a record with that ID and of one that is not found is saved, row 2 is
\* changed and row 3 is not.
C20_Witness ==
    /\ mpc = "done"
    /\ sheet0[2].id = <<" ", "A">> /\ sheet0[3].id = <<" ", "A">>
    /\ sheet0[1].id = <<"b">>
    /\ Len(records) = 2
    /\ records[1].id = <<"A">> /\ records[1].marks = <<85556, 0>>
    /\ records[2].id = <<"c">>
    /\ msum.StudentsUpdated = 1 /\ msum.StudentsNotFound = 1
    /\ disk[2] # sheet0[2]
    /\ disk[3] = sheet0[3]

\* C21: the row FindStudentInMasterSheet returned for each record is the
\* first row of the worksheet whose column B equals the record's ID once
\* both are trimmed and lower-cased, and 0 (not found) exactly when no row
\* is such; the same lookup on the worksheet as it is now returns the same
\* row, and column B is as it was before any lookup.
C21_LocateFirstMatch ==
    mpc # "off" =>
        /\ Len(located) = ridx
        /\ \A k \in 1..ridx :
              LET same(r) == ToLower(TrimSpace(sheet0[r].id))
                                = ToLower(TrimSpace(records[k].id))
              IN /\ IF \E r \in 1..SheetRows : same(r)
                      THEN /\ located[k] \in 1..SheetRows
                           /\ same(located[k])
                           /\ \A q \in 1..(located[k] - 1) : ~same(q)
                      ELSE located[k] = 0
                 /\ FindStudentInMasterSheet(sheet, records[k].id) = located[k]
        /\ \A r \in 1..SheetRows : sheet[r].id = sheet0[r].id

\* C21 witness: with the ID of the first record in rows 2 and 3 in another
\* case and behind a blank, and the ID of the second record in no row, the
\* lookups returned row 2 and not found.
C21_Witness ==
    /\ located = <<2, 0>>
    /\ sheet0[1].id = <<"b">>
    /\ sheet0[2].id = <<" ", "A">> /\ sheet0[3].id = <<" ", "A">>
    /\ records[1].id = <<"A">> /\ records[2].id = <<"c">>

\* C22: at every point of the merge StudentsNotFound and the number of
\* warnings equal the number of records gone through whose ID is in no row,
\* each of them has one warning, Errors is empty, the step of such a record
\* leaves every cell as it was, and the merge ends in an error only at the
\* save, after the loop has gone through every record.
C22_NotFoundIsCountedAndSkipped ==
    LET missing == {k \in 1..ridx :
                       \A r \in 1..SheetRows :
                           ToLower(TrimSpace(sheet0[r].id))
                               # ToLower(TrimSpace(records[k].id))}
    IN mpc # "off" =>
          /\ msum.StudentsNotFound = Cardinality(missing)
          /\ Len(msum.Warnings) = Cardinality(missing)
          /\ \A k \in missing : Count(msum.Warnings, k) = 1
          /\ msum.Errors = <<>>
          /\ (ridx \in missing) => sheet = sheetPrev
          /\ mpc \in {"done", "failed"} => ridx = Len(records)
          /\ mpc = "done" => disk = sheet

\* C22 witness: the first record was not found, the second one was found
\* and applied, and the merge is saved.
C22_Witness ==
    /\ mpc = "done"
    /\ Len(records) = 2
    /\ located[1] = 0 /\ located[2] > 0
    /\ msum.StudentsNotFound = 1 /\ Len(msum.Warnings) = 1
    /\ msum.StudentsUpdated = 1
    /\ disk # sheet0

\* C23 as stated: when no two rows of the worksheet hold the same ID, the
\* file saved by a merge of the same records appended in another order, on
\* the same worksheet, is the file the first merge saved.
C23_OrderImmaterial ==
    (run = 2 /\ mode = "reordered" /\ mpc = "done"
        /\ \A r, q \in 1..SheetRows :
              (r # q /\ ToLower(TrimSpace(sheet0[r].id))
                          = ToLower(TrimSpace(sheet0[q].id)))
                  => TrimSpace(sheet0[r].id) = <<>>)
    => disk = firstRun.disk

\* C24: a second merge of the same list on the master file restored from
\* the backup saves the content and returns the summary of the first merge,
\* and a second merge of the same list on the file the first merge saved
\* saves that same content.
C24_MergeIdempotent ==
    (run = 2 /\ mpc = "done") =>
        /\ mode = "restored" => (disk = firstRun.disk /\ msum = firstRun.msum)
        /\ mode = "again" => (disk = firstRun.disk /\ disk = sheet0)

\* C24 witness: the first merge changed the file with two records of the
\* same row, one not rounded yet, and a second merge on its result is saved.
C24_Witness ==
    /\ run = 2 /\ mpc = "done" /\ mode = "again"
    /\ firstRun.disk # firstRun.sheet0
    /\ Len(records) = 2
    /\ located = <<2, 2>>
    /\ records[1].marks = <<85556, 0>> /\ records[2].marks = <<0, EmptyMark>>
    /\ firstRun.sheet0[2].marks[1].set

\* C25 as stated: ReadStudentData returns an error and no record, or no
\* error and a record whose ID is non-empty and alphanumeric and whose marks,
\* one per mark cell, are each absent or a number from 0 to 100.
C25_AllOrNothing ==
    rpc = "returned" =>
        \/ rret = <<>> /\ rerr.type \in {"FileProcessingError", "ValidationError"}
        \/ /\ rret # <<>>
           /\ rerr.type = "nil"
           /\ IsValidStudentID(rret[1].StudentID)
           /\ Len(rret[1].Marks) = Len(rfile.marks)
           /\ \A k \in 1..Len(rret[1].Marks) :
                 LET v == rret[1].Marks[k]
                 IN  \/ v = Absent
                     \/ ~v.nan /\ 0 <= v.num /\ v.num <= 100 * 10^(v.scale)

\* C26 as stated: in a file that is valid but for its ID cell, extraction
\* succeeds exactly when the text of the ID cell, as found, is non-empty and
\* alphanumeric, and fails with a validation error otherwise.
C26_AcceptsIffValidAsFound ==
    (/\ rpc = "returned"
     /\ rfile.kind = "ok"
     /\ ~rfile.id.err
     /\ \A k \in MarkIdx :
           LET v == ParseFloat(TrimSpace(rfile.marks[k].text))
           IN  /\ ~rfile.marks[k].err
               /\ \/ TrimSpace(rfile.marks[k].text) = <<>>
                  \/ ~v.err /\ ~v.nan /\ 0 <= v.num /\ v.num <= 100 * 10^(v.scale))
    => /\ rret # <<>> <=> IsValidStudentID(rfile.id.text)
       /\ ~IsValidStudentID(rfile.id.text) => rerr.type = "ValidationError"

\* C26: when the file opens, has the worksheet and its ID cell is read, the
\* ID is refused with a validation error on student_id exactly when it is,
\* once trimmed, empty or not alphanumeric; a returned record carries the
\* trimmed ID; and with every mark cell readable and empty or a number from
\* 0 to 100, a record is returned exactly when the trimmed ID is valid.
C26_AcceptsIffValidAfterTrim ==
    (rpc = "returned" /\ rfile.kind = "ok" /\ ~rfile.id.err) =>
        LET s == TrimSpace(rfile.id.text)
            marksFine ==
                \A k \in MarkIdx :
                    LET v == ParseFloat(TrimSpace(rfile.marks[k].text))
                    IN  /\ ~rfile.marks[k].err
                        /\ \/ TrimSpace(rfile.marks[k].text) = <<>>
                           \/ /\ ~v.err /\ ~v.nan
                              /\ 0 <= v.num /\ v.num <= 100 * 10^(v.scale)
        IN  /\ ~IsValidStudentID(s) <=> rerr = ValidationError("student_id", 0)
            /\ ~IsValidStudentID(s) => rret = <<>>
            /\ rret # <<>> => rret[1].StudentID = s
            /\ marksFine => (rret # <<>> <=> IsValidStudentID(s))

\* C26 witness: an ID cell with a blank before and after an alphanumeric ID
\* has given a record with the ID without the blanks.
C26_Witness ==
    /\ rpc = "returned"
    /\ rfile.id.text = <<" ", "A", "1", " ">>
    /\ rret # <<>>
    /\ rret[1].StudentID = <<"A", "1">>
    /\ rerr.type = "nil"

\* C27 as stated: of each mark cell the loop has read, an empty text after
\* trimming is stored as absent without error; a text that parses is stored
\* exactly when its number is from 0 to 100; a text that does not parse or
\* whose number is out of that range fails the file with a validation error.
C27_MarkCellRule ==
    (rpc = "returned" /\ rdata # <<>> /\ rerr.stage # "student_id") =>
        LET stored == rdata[1].Marks
        IN  \A k \in MarkIdx :
                ((k <= Len(stored) \/ rerr.cell = k) /\ ~rfile.marks[k].err) =>
                    LET t == TrimSpace(rfile.marks[k].text)
                        v == ParseFloat(t)
                        inRange == /\ ~v.nan
                                   /\ 0 <= v.num
                                   /\ v.num <= 100 * 10^(v.scale)
                        accepted == k <= Len(stored)
                    IN  /\ t = <<>> => (accepted /\ stored[k] = Absent)
                        /\ (t # <<>> /\ ~v.err) => (accepted <=> inRange)
                        /\ (t # <<>> /\ (v.err \/ ~inRange)) =>
                              /\ ~accepted
                              /\ rret = <<>>
                              /\ rerr = ValidationError("mark", k)

C29_ZeroFilesEmptySummary ==
    (pc = "returned" /\ MasterSheetOk(masterDoc) /\ files = <<>>) =>
        /\ retErr = "nil"
        /\ [summary EXCEPT !.StartTime = 0, !.EndTime = 0] = EmptySummary
        /\ backupLog = <<>>
        /\ backups = <<>>
        /\ \A i \in FileIds : tpc[i] = "pending" /\ attempt[i] = 0
        /\ studentDataList = <<>>
        /\ procSummary = EmptySummary
        /\ batch.idx = 0
        /\ master = InitialMaster
        /\ outputs = <<>>

\* C29 witness: a run with the backup enabled and not dry has returned
\* after a discovery that found nothing.
C29_Witness ==
    /\ pc = "returned"
    /\ MasterSheetOk(masterDoc)
    /\ files = <<>>
    /\ cfg.BackupEnabled
    /\ ~dryRun
    /\ retErr = "nil"
    /\ summary.TotalFiles = 0

\* C30 as stated: the summary ProcessFiles returns has its StartTime and its
\* EndTime set, the EndTime not before the StartTime, on every return.
C30_SummaryFinalized ==
    pc = "returned" =>
        /\ summary.StartTime > 0
        /\ summary.EndTime > 0
        /\ summary.EndTime >= summary.StartTime

\* C31: a file only goes Pending -> Extracting, Extracting -> Succeeded,
\* RetryWait, Skipped or Failed, and RetryWait -> Extracting; once Succeeded,
\* Skipped or Failed it stays so; and the outcome of a file is in the
\* counters, in studentDataList and in Errors exactly once from the critical
\* section on and not before.
C31_TaskStateMachine ==
    [][LET allowed ==
               {<<"Pending", "Extracting">>, <<"Extracting", "Succeeded">>,
                <<"Extracting", "RetryWait">>, <<"Extracting", "Skipped">>,
                <<"Extracting", "Failed">>, <<"RetryWait", "Extracting">>}
           folded == {i \in FileIds : tpc'[i] \in {"progress", "done"}}
       IN  /\ \A i \in FileIds :
                 \/ TaskState(i)' = TaskState(i)
                 \/ <<TaskState(i), TaskState(i)'>> \in allowed
           /\ \A i \in folded : TaskState(i)' \in {"Succeeded", "Skipped", "Failed"}
           /\ procSummary'.SuccessfulFiles =
                 Cardinality({i \in folded : TaskState(i)' = "Succeeded"})
           /\ procSummary'.SkippedFiles =
                 Cardinality({i \in folded : TaskState(i)' = "Skipped"})
           /\ procSummary'.FailedFiles =
                 Cardinality({i \in folded : TaskState(i)' = "Failed"})
           /\ \A i \in FileIds :
                 /\ Count(studentDataList', i) =
                       IF i \in folded /\ TaskState(i)' = "Succeeded" THEN 1 ELSE 0
                 /\ Count(procSummary'.Errors, i) =
                       IF i \in folded /\ TaskState(i)' = "Failed" THEN 1 ELSE 0
           /\ pc' \in {"update", "apply", "copy", "finalize"} =>
                 folded = 1..Len(files')
      ]_vars

\* C31 witness: in a returned run one file succeeded at its second attempt
\* and another was classified after its last failed attempt.
C31_Witness ==
    /\ pc = "returned"
    /\ \E i, j \in FileIds :
          /\ tpc[i] = "done" /\ success[i] /\ attempt[i] = 2
          /\ tpc[j] = "done" /\ ~success[j] /\ attempt[j] = cfg.RetryAttempts
    /\ procSummary.SuccessfulFiles = 1
    /\ procSummary.FailedFiles + procSummary.SkippedFiles = 1

\* C32: at most one goroutine is between mu.Lock() and mu.Unlock() of the
\* summary update, and it is the holder of mu; every outcome that has left
\* that section is in exactly one counter, every failure counted as failed
\* has its message, every success its record; and once all goroutines are
\* done the number of records in studentDataList is SuccessfulFiles.
C32_SummaryUpdatesExclusive ==
    LET inside == {i \in FileIds : tpc[i] = "crit"}
        folded == {i \in FileIds : tpc[i] \in {"progress", "done"}}
    IN  /\ Cardinality(inside) <= 1
        /\ \A i \in FileIds : tpc[i] = "crit" <=> mu = i
        /\ procSummary.SuccessfulFiles + procSummary.FailedFiles
              + procSummary.SkippedFiles = Cardinality(folded)
        /\ Len(procSummary.Errors) = procSummary.FailedFiles
        /\ Len(studentDataList) = procSummary.SuccessfulFiles
        /\ Range(studentDataList) = {i \in folded : success[i]}
        /\ Range(procSummary.Errors) =
              {i \in folded : ~success[i] /\ ~cfg.SkipInvalidFiles}
        /\ ExtractionOver =>
              /\ folded = 1..Len(files)
              /\ Len(studentDataList) = summary.SuccessfulFiles

\* C32 witness: the goroutine of one extracted file is in the critical
\* section while the goroutine of another extracted file waits at mu.Lock().
C32_Witness ==
    \E i, j \in FileIds :
        /\ i # j
        /\ tpc[i] = "crit" /\ mu = i
        /\ tpc[j] = "result"
        /\ success[i] /\ success[j]

\* C33: BatchUpdateMasterSheet is called only from the point after
\* wg.Wait(), which ProcessFiles reaches once and never again; it is called
\* there exactly when the run is not a dry run and at least one file
\* succeeded, with every goroutine done, no semaphore token and no lock
\* held; no step of a goroutine changes the master sheet, the backups, the
\* output folder or the batch, and the master sheet changes only in the
\* batch's save.
C33_MergeOnceAfterExtraction ==
    [][LET called ==
               /\ pc = "update"
               /\ \/ pc' = "apply"
                  \/ pc' = "returned" /\ retErr' = "failed to update master sheet"
           skipped == pc = "update" /\ pc' # "update" /\ ~called
           after == {"apply", "copy", "finalize", "returned"}
       IN  /\ called =>
                 /\ ~dryRun
                 /\ summary.SuccessfulFiles > 0
                 /\ Len(studentDataList) = summary.SuccessfulFiles
                 /\ \A i \in 1..Len(files) : tpc[i] = "done"
                 /\ semaphore = 0
                 /\ mu = 0
           /\ skipped => (dryRun \/ summary.SuccessfulFiles = 0)
           /\ (pc' = "update" /\ pc # "update") => pc = "wait"
           /\ (pc' = "wait" /\ pc # "wait") => pc = "loop"
           /\ pc \in after => pc' \in after
           /\ (pc = "apply" /\ pc' # "apply") => pc' \in {"copy", "returned"}
           /\ tpc' # tpc =>
                 /\ master' = master
                 /\ backups' = backups
                 /\ outputs' = outputs
                 /\ batch' = batch
           /\ master' # master =>
                 /\ pc = "apply"
                 /\ \A i \in 1..Len(files) : tpc[i] = "done"
      ]_vars

\* C33 witness: the merge has been called in a run where one file succeeded
\* and one failed, and has saved the master sheet.
C33_Witness ==
    /\ pc = "copy"
    /\ ~dryRun
    /\ summary.SuccessfulFiles = 1
    /\ summary.FailedFiles = 1
    /\ master.saves = 1
    /\ \A i \in 1..Len(files) : tpc[i] = "done"

\* C34: under weak fairness of the goroutines, ProcessFiles returns; a
\* goroutine that waits for the semaphore gets a token, a goroutine with a
\* token reaches the point where its outcome is classified, and from there
\* it takes the lock, is counted and gives its token back; when ProcessFiles
\* has returned no token and no lock is held.
C34_RunTerminates ==
    /\ <>(pc = "returned")
    /\ \A i \in FileIds : (tpc[i] = "waiting") ~> HoldsSlot(i)
    /\ \A i \in FileIds :
          HoldsSlot(i) ~> (tpc[i] \in {"result", "crit", "progress", "done"})
    /\ \A i \in FileIds : (tpc[i] = "result") ~> (tpc[i] = "done")
    /\ [](pc = "returned" => (semaphore = 0 /\ mu = 0))

\* C34 witness: with one semaphore token and two attempts allowed, a file
\* sleeps before its retry with the token while the other file waits for
\* the token.
C34_Witness ==
    /\ cfg.MaxConcurrentFiles = 1
    /\ cfg.RetryAttempts = 2
    /\ \E i, j \in FileIds :
          /\ tpc[i] = "retrywait"
          /\ tpc[j] = "waiting"
    /\ semaphore = 1

\* C35: UpdateMasterSheet on a record whose ID no row holds returns an
\* error and leaves the open document and the file as they were; on a
\* record whose ID a row holds, when the file opens, has the worksheet and is
\* saved, it returns nil and the file is the old one but for the first such
\* row, whose mark cells hold the record's marks that are present, with two
\* decimals, and their old content where the record has none; when it
\* returns an error the file is unchanged.
C35_SingleUpdate ==
    (mpc # "loop" /\ mpc # "off") =>
        LET hit(r) == ToLower(TrimSpace(sheet0[r].id))
                         = ToLower(TrimSpace(records[1].id))
            present == \E r \in 1..SheetRows : hit(r)
            row == CHOOSE r \in 1..SheetRows :
                       hit(r) /\ \A q \in 1..(r - 1) : ~hit(q)
            rounded(v) == CHOOSE w \in (v - 4)..(v + 5) : w % 10 = 0
        IN  /\ ~present => (mpc = "failed" /\ sheet = sheet0 /\ disk = sheet0)
            /\ mpc = "failed" => disk = sheet0
            /\ (present /\ located # <<>>) =>
                  /\ located = <<row>>
                  /\ mpc = "done" => disk = sheet
                  /\ \A r \in 1..SheetRows :
                        /\ sheet[r].id = sheet0[r].id
                        /\ r # row => sheet[r] = sheet0[r]
                  /\ \A c \in MarkIdx :
                        sheet[row].marks[c] =
                            IF records[1].marks[c] # EmptyMark
                              THEN [set |-> TRUE,
                                    val |-> rounded(records[1].marks[c])]
                              ELSE sheet0[row].marks[c]
            /\ (present /\ located = <<>>) => (mpc = "failed" /\ sheet = sheet0)

\* C35 witness: a call for a record with two marks whose ID is in no row
\* has returned an error after the lookup.
C35_Witness ==
    /\ mpc = "failed"
    /\ Len(records) = 1
    /\ located = <<0>>
    /\ records[1].id = <<"c">>
    /\ records[1].marks = <<85556, 0>>
    /\ \A r \in 1..SheetRows : sheet0[r].marks[1].set
    /\ disk = sheet0

\* C36 as stated: for every retry_attempts the validation accepts, no
\* goroutine panics and the process does not end, and a file whose outcome
\* is being classified has been read at least once and, when it did not
\* succeed, carries the error of a failed read.
C36_ExtractedBeforeClassified ==
    /\ pc # "crashed"
    /\ \A i \in FileIds :
          /\ tpc[i] \notin {"panicked", "killed"}
          /\ tpc[i] \in {"result", "crit", "progress", "done"} =>
                /\ attempt[i] >= 1
                /\ ~success[i] => lastErr[i] # "nil"

\* C37 as stated: every record the batch merge has gone through is counted
\* exactly once, as updated or as not found, so that after the merge
\* StudentsUpdated + StudentsNotFound is the number of records passed to
\* it, records that were located with every mark absent included.
C37_EveryRecordAccounted ==
    mpc # "off" =>
       /\ msum.StudentsUpdated + msum.StudentsNotFound = ridx
       /\ mpc \in {"done", "failed"} =>
             msum.StudentsUpdated + msum.StudentsNotFound = Len(records)

\* C39 as stated: a record that is located is located in a data row, never
\* in row 1, and the merge leaves the mark cells of row 1 as they were, also
\* when column B of row 1 equals the ID once both are trimmed and lowered.
C39_LocateSkipsHeader ==
    mpc # "off" =>
       /\ \A k \in 1..Len(located) : located[k] # 0 => located[k] >= 2
       /\ sheet[1].marks = sheet0[1].marks

\* C38: the output copy is attempted only after the save of the batch merge
\* and ProcessFiles goes on whether it is written or not: the step leaves
\* the summary, the error to return and the merged master file as they are,
\* and a copy that is written is the saved, merged file.  A run whose merge
\* was saved returns nil, with the errors and warnings of the extraction
\* followed by those of the merge and nothing else, whatever became of the
\* copy.
C38_CopyFailureIsNotFatal ==
    /\ [][(pc = "copy" /\ pc' # "copy") =>
             /\ master.saves = 1
             /\ pc' = "finalize"
             /\ summary' = summary
             /\ retErr' = retErr
             /\ master' = master
             /\ outputs' \in {outputs, Append(outputs, master)}]_vars
    /\ [](/\ Len(outputs) <= 1
          /\ \A k \in 1..Len(outputs) :
                outputs[k] = master /\ master.saves = 1 /\ master.merged = batch.mem
          /\ (pc \in {"finalize", "returned"} /\ master.saves = 1) =>
                /\ summary.Errors = procSummary.Errors \o batch.sum.Errors
                /\ summary.Warnings = procSummary.Warnings \o batch.sum.Warnings
                /\ master.merged = batch.mem
          /\ (pc = "returned" /\ master.saves = 1) => retErr = "nil")

\* C38 witness: a run whose merge changed the master file and was saved has
\* returned nil although no output copy was written.
C38_Witness ==
    /\ pc = "returned"
    /\ ~dryRun
    /\ master.saves = 1
    /\ master # InitialMaster
    /\ master.merged # InitialMaster.merged
    /\ outputs = <<>>
    /\ retErr = "nil"
    /\ summary.Errors = procSummary.Errors \o batch.sum.Errors

\* C40 as stated: at any moment at most one runProcessing has been started
\* and has not returned; a step taken while isProcessing is true starts no
\* run and leaves processor and the context as they are; while no run is
\* active no context is cancelled and the status does not turn to
\* "Stopping processing..."; a stop that acts cancels the context of a run
\* that is active; and when a runProcessing returns, isProcessing is false.
C40_OneRunAtATime ==
    /\ [](Cardinality({k \in 1..MaxRuns :
                          runProc[k].pc \notin {"none", "returned"}}) <= 1)
    /\ [][isProcessing =>
             /\ \A k \in 1..MaxRuns :
                   runProc[k].pc = "none" => runProc'[k].pc = "none"
             /\ processor' = processor
             /\ processingContext' = processingContext]_vars
    /\ [][(\A k \in 1..MaxRuns : runProc[k].pc \in {"none", "returned"}) =>
             /\ ctxDone' = ctxDone
             /\ status' = "Stopping processing..." => status = status']_vars
    /\ [][(status' = "Stopping processing..." /\ ctxDone' # ctxDone) =>
             /\ processingContext # 0
             /\ runProc[processingContext].pc \notin {"none", "returned"}
             /\ processingContext \in ctxDone']_vars
    /\ [][\A k \in 1..MaxRuns :
             (runProc[k].pc # "returned" /\ runProc'[k].pc = "returned")
                => ~isProcessing']_vars

====
